---- MODULE Spec2Model ----
(***************************************************************************)
(* GEDPro: token issuance / rotation (AuthService over UserService) and    *)
(* the request-scoped tenant context (TenantContextService over            *)
(* AsyncLocalStorage, installed by TenancyInterceptor).                    *)
(*                                                                         *)
(* Every async method is cut at the awaits that read or write what calls   *)
(* share (the user table, the clock); an await of a computation local to   *)
(* the call (bcrypt.hash) is taken with the step that follows it.  Calls   *)
(* interleave at these cuts.  Time is Date.now() in milliseconds.          *)
(***************************************************************************)
EXTENDS Integers, FiniteSets, Sequences, TLC

\* ------------------------------------------------------------------ bounds
NumUsers == 2          \* user records in the store
NumReqs == 2           \* calls in flight at once
MaxOps == 2            \* calls started in one behaviour
MaxTicks == 1          \* clock advances in one behaviour
NumHttp == 2           \* HTTP requests in flight at once
MaxAwaits == 2         \* suspensions of one request's handler
MaxArrivals == 2       \* HTTP requests received in one behaviour
MaxWaits == 8          \* pauses of the browser session

\* --------------------------------------------------------------- constants
AccessTtlSec == 900                \* expiresIn: '15m'
RefreshTtlSec == 604800            \* expiresIn: '7d'
\* validateGenerateTokens, line 68, and two ways to get it wrong: the
\* milliseconds forgotten, and the five days its name announces.
fiveDaysMsInSeconds == 1 * 24 * 60 * 60
fiveDaysMsAsNamed == 5 * 24 * 60 * 60 * 1000
fiveDaysMs == 1 * 24 * 60 * 60 * 1000
HalfSecondMs == 1000 \div 2
OneDayMs == 24 * 60 * 60 * 1000
SixDaysMs == 6 * 24 * 60 * 60 * 1000

UserIds == 1..NumUsers
GhostId == NumUsers + 1            \* an id / email no record has
\* The rows of the user table: the records there are, and the one the next
\* registration will create (PrimaryGeneratedColumn gives it the next id).
Rows == 1..GhostId
Reqs == 1..NumReqs
\* An email is modelled by the id of the user that owns it.
\* What login is called with: every user's email with the right password,
\* one user's email with a wrong password, and an email no user has.
Credentials == (UserIds \X {"secret"}) \cup {<<1, "wrong">>, <<GhostId, "secret">>}
\* The clock advances by half a second: two calls can fall into the same
\* second or into different ones.
TickSteps == {HalfSecondMs}

RoleName(u) == IF u = 1 THEN "admin" ELSE "user"
\* user.organization: the id of the user's organization, 0 for null.
OrganizationOf(u) == IF u = 1 THEN 1 ELSE 0

\* ------------------------------------------------------------------ tokens
\* A compact JWT (HS256) is a function of its payload and of the secret that
\* signed it: two tokens with the same fields are the same string.
NoToken == [kind |-> "none", sub |-> 0, role |-> "", iat |-> 0, exp |-> 0]
\* A string that is not a JWT at all.
Garbage == [kind |-> "garbage", sub |-> 0, role |-> "", iat |-> 0, exp |-> 0]

\* jwt.sign(payload, {secret, expiresIn}): iat is the current time in whole
\* seconds, exp is iat + expiresIn.
sign(kind, id, role, nowMs, ttlSec) ==
  [kind |-> kind, sub |-> id, role |-> role,
   iat |-> nowMs \div 1000, exp |-> (nowMs \div 1000) + ttlSec]

generateTokens(id, role, nowMs) ==
  [accessToken  |-> sign("access", id, role, nowMs, AccessTtlSec),
   refreshToken |-> sign("refresh", id, role, nowMs, RefreshTtlSec)]

NoTokens == [accessToken |-> NoToken, refreshToken |-> NoToken]

\* jwt.decode(token): the payload without any verification; null (exp = 0
\* here) for a string that is not a JWT.
decode(token) == [exp |-> IF token.kind \in {"access", "refresh"} THEN token.exp ELSE 0]

\* ------------------------------------------------------------------ bcrypt
\* bcrypt reads only the first 72 bytes of its input.  The compact form of a
\* token starts with the 36 characters of the fixed header
\* {"alg":"HS256","typ":"JWT"} and a dot; the 35 characters left decode to the
\* first 26 bytes of the payload {"sub":<id>,"role":"<name>","iat":...}, which
\* end before the first digit of iat.  What bcrypt sees of a token is
\* therefore its sub and its role, whichever secret signed it.
JwtFirst72(token) == [sub |-> token.sub, role |-> token.role]

NoHash == [pre |-> [sub |-> 0, role |-> "null"], salt |-> 0]
\* bcrypt.hash(data, 10): a fresh random salt and the digest of the first 72
\* bytes under that salt.
bcryptHash(first72, salt) == [pre |-> first72, salt |-> salt]
\* The promise of bcrypt.compare taken for its value: always truthy.
bcryptCompareNotAwaited(first72, hash) == TRUE
\* bcrypt.compare(data, hash): re-hash under the hash's salt and compare.
bcryptCompare(first72, hash) == hash # NoHash /\ hash.pre = first72

\* A password is short: bcrypt sees it whole.
PasswordFirst72(password) == [sub |-> 0, role |-> password]

\* ---------------------------------------------------------------- outcomes
\* What a call ends with: its value, or the exception it throws.
Pending == [exception |-> "pending", message |-> ""]
Ok == [exception |-> "none", message |-> ""]
InvalidCredentials == [exception |-> "BadRequestException", message |-> "Invalid credentials"]
YouNeedToLogin == [exception |-> "UnauthorizedException", message |-> "You need to login"]
NoUserFound == [exception |-> "NotFoundException", message |-> "No user found with this Id"]
EmailExists == [exception |-> "ConflictException", message |-> "This Email already exist"]
\* userRepo.save rejects a second row with the same email (unique column).
QueryFailed == [exception |-> "QueryFailedError", message |-> "duplicate key value"]
\* bcrypt.compare rejects when the hash argument is null.
BcryptError == [exception |-> "Error", message |-> "data and hash arguments required"]

\* The status the framework answers with for an exception that leaves a handler.
getStatus(outcome) ==
  CASE outcome.exception = "none" -> 201
    [] outcome.exception = "BadRequestException" -> 400
    [] outcome.exception = "UnauthorizedException" -> 401
    [] outcome.exception = "ForbiddenException" -> 403
    [] outcome.exception = "NotFoundException" -> 404
    [] outcome.exception = "ConflictException" -> 409
    [] OTHER -> 500

\* ------------------------------------------------------------------- state
\* JavaScript values of request.user's fields.
Undefined == [type |-> "undefined", value |-> 0]
Null == [type |-> "null", value |-> 0]
Num(n) == [type |-> "number", value |-> n]
\* !v for a number, undefined or null.
falsy(v) == v.type \in {"undefined", "null"} \/ v.value = 0

\* request.user as the guard left it: absent on a route without the guard.
NoRequestUser == [present |-> FALSE, id |-> Undefined, organizationId |-> Undefined, role |-> ""]
RequestUser(id, organizationId, role) ==
  [present |-> TRUE, id |-> Num(id), organizationId |-> organizationId, role |-> role]

\* What a controller answers: the status, the refreshToken cookie it sets
\* with its options, and the tokens in the JSON body.
NoResponse == [status |-> 0, cookie |-> NoToken, httpOnly |-> FALSE, sameSite |-> "",
               body |-> [accessToken |-> NoToken, refreshToken |-> NoToken]]

\* The claims of a verified token as passport-jwt hands them to validate.
\* organizationId is Undefined in a payload that has no such claim.
Payload(sub, role, organizationId) ==
  [sub |-> sub, role |-> role, organizationId |-> organizationId]
NoPayload == Payload(0, "", Undefined)

NoUser == [id |-> 0, email |-> 0, password |-> NoHash,
           refreshTokenHash |-> NoHash, role |-> "", organization |-> 0]

IdleReq == [op |-> "none", pc |-> "idle", salt |-> 0, email |-> 0, password |-> "",
            user_id |-> 0, refreshToken |-> NoToken, user |-> NoUser,
            tokens |-> NoTokens, hashedRefresh |-> NoHash,
            nowMs |-> 0, outcome |-> Pending,
            wrote |-> FALSE, stale |-> FALSE, prior |-> {},
            nearAtStart |-> FALSE, validAtStart |-> FALSE,
            bearer |-> NoToken, payload |-> NoPayload,
            principal |-> NoRequestUser, response |-> NoResponse]

\* ---------------------------------------------------------- tenant context
HttpReqs == 1..NumHttp

RequestUsers ==
  { NoRequestUser,
    RequestUser(1, Undefined, "admin"),
    RequestUser(2, Num(0), "user"),
    RequestUser(3, Num(1), "admin") }

\* getStore() of a context no run has given a store.
NoStore == [type |-> "undefined", organizationId |-> Undefined, userId |-> Undefined, role |-> ""]
TenantContextData(organizationId, userId, role) ==
  [type |-> "object", organizationId |-> organizationId, userId |-> userId, role |-> role]

\* The async contexts of a request: the one the request arrived in, and the
\* one storage.run opens for its callback and all that the callback schedules.
requestContext(r) == r
scopeContext(r) == NumHttp + r
AsyncIds == 1..(2 * NumHttp)

\* What a turn of a handler reads through the service.
Returned(v) == [threw |-> FALSE, value |-> v]
Threw == [threw |-> TRUE, value |-> Undefined]
NoReads == [context |-> NoStore, organizationId |-> Threw, userId |-> Threw,
            hasContext |-> FALSE, after |-> 0]

IdleHttp == [pc |-> "idle", user |-> NoRequestUser, asyncId |-> 0,
             installed |-> NoStore, first |-> NoReads, seen |-> NoReads,
             afterRun |-> NoStore, awaits |-> 0]
\* The positions in which a request is over and its worker takes the next.
HttpDone == {"idle", "complete", "failed", "cancelled", "rejected", "unauthorized"}

\* request.user after AuthGuard('jwt-refresh'): what RefreshTokenStrategy's
\* validate returned, the pair { accessToken, refreshToken }.
TokensUser == [present |-> TRUE, id |-> Undefined, organizationId |-> Undefined, role |-> ""]

\* A request as it reaches the guards of its route: the route, and what the
\* route's passport strategy makes of its credentials (absent when it
\* authenticates nothing, or when the route has no guard).
HttpRequest(path, user) == [route |-> path, user |-> user]
HttpRequests ==
  {HttpRequest("auth/login", NoRequestUser)}
    \cup {HttpRequest("auth/refresh", u) : u \in {NoRequestUser, TokensUser}}
    \cup {HttpRequest("candidates", u) : u \in RequestUsers}
NoPipeline == [route |-> "none", prev |-> "none"]

\* --------------------------------------------------------- browser session
\* What req.cookies.refreshToken can be besides a string: absent, or the
\* object cookie-parser makes of a JSON cookie.
NoCookie == [NoToken EXCEPT !.kind = "undefined"]
ObjectCookie == [NoToken EXCEPT !.kind = "object"]
\* typeof token === 'string'
typeofString(token) == token.kind \in {"refresh", "access", "garbage"}
\* A POST /auth/refresh: the cookie, and a refreshToken a client may put in
\* the body.
RefreshRequest(cookie, body) == [cookies |-> cookie, body |-> body]
NoRequest == RefreshRequest(NoCookie, NoCookie)
\* The requests of a client that holds refresh token kept: the cookie sent,
\* the cookie missing and the token in the body, a cookie that is no string.
RequestsOf(kept) ==
  { RefreshRequest(kept, NoCookie),
    RefreshRequest(NoCookie, kept),
    RefreshRequest(ObjectCookie, NoCookie) }

\* ------------------------------------------------------------- candidates
MaxCandidates == 3                 \* ids the candidates table can generate
NumCalls == 2                      \* CandidateService calls in flight at once
MaxCalls == 2                      \* CandidateService calls started
CandidateIds == 1..MaxCandidates
Calls == 1..NumCalls

CandidateState == {"NEW", "PRESCREENED", "INTERVIEW", "OFFER", "HIRED", "REJECTED"}

VALID_STATE_TRANSITIONS(state) ==
  CASE state = "NEW" -> {"PRESCREENED", "REJECTED"}
    [] state = "PRESCREENED" -> {"INTERVIEW", "REJECTED"}
    [] state = "INTERVIEW" -> {"OFFER", "REJECTED"}
    [] state = "OFFER" -> {"HIRED", "REJECTED"}
    [] OTHER -> {}

\* A row of the candidates table; NoCandidate where the table has none.
Candidate(id, email, state, organizationId) ==
  [id |-> id, email |-> email, state |-> state, organizationId |-> organizationId]
NoCandidate == Candidate(0, 0, "", 0)

\* A row of the state_history table.
StateHistory(candidateId, fromState, toState, changedById) ==
  [candidateId |-> candidateId, fromState |-> fromState, toState |-> toState,
   changedById |-> changedById]

\* The context TenancyInterceptor installed for the request of a call: the
\* organization and the user the service reads from it.
CallContext(organizationId, userId) ==
  [organizationId |-> organizationId, userId |-> userId]
\* Two organizations, each with one recruiter.
TenantContexts == {CallContext(1, 1), CallContext(2, 2)}

CandidateNotFound == [exception |-> "NotFoundException", message |-> "Candidate not found"]
CandidateExists ==
  [exception |-> "BadRequestException", message |-> "Candidate with this email already exists"]
CannotTransition == [exception |-> "BadRequestException", message |-> "Cannot transition"]
CannotDeleteHired ==
  [exception |-> "ForbiddenException", message |-> "Cannot delete hired candidates"]

IdleCall == [op |-> "none", pc |-> "idle", context |-> CallContext(0, 0),
             id |-> 0, toState |-> "", fromState |-> "", candidate |-> NoCandidate,
             found |-> {}, history |-> <<>>, outcome |-> Pending]

\* ---------------------------------------------------------------- storage
NumStorageCalls == 2               \* StorageService calls in flight at once
MaxStorageCalls == 2               \* StorageService calls started
StorageCalls == 1..NumStorageCalls

\* The template literal `tenant-${orgId}`.
TenantBucket(orgId) == [prefix |-> "tenant-", orgId |-> orgId]
\* One bucket for every organization.
SharedBucket(orgId) == [prefix |-> "tenant-", orgId |-> Num(0)]
NoBucket == [prefix |-> "", orgId |-> Undefined]

StorageObject(bucket, key) == [bucket |-> bucket, key |-> key]

\* The contexts a StorageService call can run under: that of a request of
\* organization 1 or 2, or none.
StorageContexts ==
  { TenantContextData(Num(1), Num(1), "admin"),
    TenantContextData(Num(2), Num(2), "user"),
    NoStore }

NoTenantContext == [exception |-> "Error", message |-> "No tenant context available"]
\* CreateBucket for a bucket the account already has.
BucketAlreadyOwnedByYou ==
  [exception |-> "S3ServiceException", message |-> "BucketAlreadyOwnedByYou"]
NoSuchBucket == [exception |-> "S3ServiceException", message |-> "NoSuchBucket"]
NoSuchKey == [exception |-> "S3ServiceException", message |-> "NoSuchKey"]

IdleStorageCall == [op |-> "none", pc |-> "idle", context |-> NoStore,
                    bucket |-> NoBucket, key |-> 0, addressed |-> {},
                    result |-> {}, outcome |-> Pending]

VARIABLES
  users,       \* the user table: id -> record
  now,         \* Date.now(), ms
  req,         \* the calls in flight: slot -> the call's locals and position
  issued,      \* every refresh token generateTokens has produced so far
  superseded,  \* per user: tokens issued before a call that has stored a hash
  ops,         \* calls started
  ticks,       \* clock advances
  stores,      \* AsyncLocalStorage: async context -> its store
  hreq,        \* HTTP requests: slot -> the request, its position, its reads
  lastRun,     \* the request whose run was the latest to install a context
  arrivals,    \* HTTP requests received
  pipeline,    \* per worker: the route of its request, how the previous ended
  client,      \* one browser session of user 1: its cookie jar and its requests
  candidates,  \* the candidates table: id -> row
  lastCandidateId, \* the latest id the candidates table generated
  stateHistory,\* the state_history table, in insertion order
  creq,        \* CandidateService calls in flight: slot -> locals and position
  calls,       \* CandidateService calls started
  buckets,     \* the buckets the object store has
  bucketCache, \* MinioStorageProvider.bucketCache
  objects,     \* the objects stored: bucket and key
  sreq,        \* StorageService calls in flight: slot -> locals and position
  scalls       \* StorageService calls started

authVars == <<users, now, req, issued, superseded, ops, ticks>>
tenancyVars == <<stores, hreq, lastRun, arrivals, pipeline>>
sessionVars == <<client>>
candidateVars == <<candidates, lastCandidateId, stateHistory, creq, calls>>
storageVars == <<buckets, bucketCache, objects, sreq, scalls>>
vars == <<users, now, req, issued, superseded, ops, ticks,
          stores, hreq, lastRun, arrivals, pipeline, client,
          candidates, lastCandidateId, stateHistory, creq, calls,
          buckets, bucketCache, objects, sreq, scalls>>

\* The store as the service finds it: user 1 logged in at time 0, half a
\* second less than six days ago, so that the refresh token of that session
\* has half a second more than one day to live and reaches exactly one day
\* with the next advance of the clock; the other users never logged in.
FirstSession == generateTokens(1, RoleName(1), 0)

InitStore ==
  /\ users = [u \in Rows |->
                IF u \notin UserIds THEN NoUser ELSE
                [id |-> u, email |-> u,
                 password |-> bcryptHash(PasswordFirst72("secret"), u),
                 refreshTokenHash |->
                    IF u = 1
                    THEN bcryptHash(JwtFirst72(FirstSession.refreshToken), NumUsers + 1)
                    ELSE NoHash,
                 role |-> RoleName(u),
                 organization |-> OrganizationOf(u)]]
  /\ req = [r \in Reqs |-> IdleReq]
  /\ issued = {FirstSession.refreshToken}
  /\ superseded = [u \in Rows |-> {}]
  /\ ops = 0
  /\ ticks = 0
  /\ stores = [a \in AsyncIds |-> NoStore]
  /\ hreq = [r \in HttpReqs |-> IdleHttp]
  /\ lastRun = 0
  /\ arrivals = 0
  /\ pipeline = [r \in HttpReqs |-> NoPipeline]
  /\ client = [cookie |-> FirstSession.refreshToken, request |-> NoRequest,
               sent |-> 0, sentAt |-> 0, steady |-> TRUE,
               waits |-> 0, waited |-> FALSE]
  /\ candidates = [id \in CandidateIds |->
                     CASE id = 1 -> Candidate(1, 1, "OFFER", 1)
                       [] id = 2 -> Candidate(2, 2, "NEW", 2)
                       [] OTHER -> NoCandidate]
  /\ lastCandidateId = 2
  /\ stateHistory = << StateHistory(1, "NEW", "NEW", 1),
                       StateHistory(1, "NEW", "PRESCREENED", 1),
                       StateHistory(1, "PRESCREENED", "INTERVIEW", 1),
                       StateHistory(1, "INTERVIEW", "OFFER", 1),
                       StateHistory(2, "NEW", "NEW", 2) >>
  /\ creq = [c \in Calls |-> IdleCall]
  /\ calls = 0
  /\ buckets = {TenantBucket(Num(1))}
  /\ bucketCache = {}
  /\ objects = {StorageObject(TenantBucket(Num(1)), 1)}
  /\ sreq = [s \in StorageCalls |-> IdleStorageCall]
  /\ scalls = 0

Init == InitStore /\ now = SixDaysMs - HalfSecondMs

\* The same store at the moment the login of user 1 has returned.
SessionInit == InitStore /\ now = 0

\* ------------------------------------------------------------ UserService
findByEmail(email) ==
  IF \E u \in Rows : users[u].email = email
  THEN users[CHOOSE u \in Rows : users[u].email = email]
  ELSE NoUser

\* findById throws NotFoundException when no record has the id.
findById(id) == IF id \in Rows /\ users[id] # NoUser THEN users[id] ELSE NoUser

\* ------------------------------------------------------------ AuthService
throw(r, exception) ==
  req' = [req EXCEPT ![r].pc = "done", ![r].outcome = exception]

\* login, line 45: the one throw both failures of login reach.
loginFailureUserNotFound(user) ==
  IF user = NoUser THEN NoUserFound ELSE InvalidCredentials
loginFailure(user) == InvalidCredentials

\* validateGenerateTokens, line 57: !user.refreshTokenHash
noRefreshTokenHashUnchecked(user) == FALSE
noRefreshTokenHash(user) == user.refreshTokenHash = NoHash

\* validateGenerateTokens, line 67: decoded.exp * 1000 - Date.now(), computed as
\* (exp - whole seconds of now) * 1000 - (milliseconds of now), the same number
\* without a product beyond 32 bits.
expiresInMs(exp, nowMs) == ((exp - (nowMs \div 1000)) * 1000) - (nowMs % 1000)

\* validateGenerateTokens, line 69: expiresInMs <= fiveDaysMs
nearExpiry(exp, nowMs) == expiresInMs(exp, nowMs) <= fiveDaysMs

\* bcrypt draws a random salt for every hash; a call hashes at most once, and
\* the salt it will draw is a number no other hash has.
FreshSalt == NumUsers + 2 + ops

\* A slot is free when it was never used or when its call has ended; the
\* slots are interchangeable, and a new call takes the lowest free one.
freeSlot(r) ==
  /\ req[r].pc \in {"idle", "done", "responded"}
  /\ \A q \in Reqs : q < r => req[q].pc \notin {"idle", "done", "responded"}

\* login, line 32: the call and const user = await findByEmail(email)
login(r, email, password) ==
  /\ freeSlot(r)
  /\ LET user == findByEmail(email)
         call == [IdleReq EXCEPT !.op = "login", !.salt = FreshSalt,
                                 !.email = email, !.password = password]
     IN
       IF user = NoUser
       THEN req' = [req EXCEPT ![r] =
                      [call EXCEPT !.pc = "done", !.outcome = loginFailure(user)]]
       ELSE req' = [req EXCEPT ![r] =
                      [call EXCEPT !.pc = "comparePassword", !.user = user]]
  /\ ops' = ops + 1
  /\ UNCHANGED <<users, now, issued, superseded, ticks>>
  /\ UNCHANGED tenancyVars
  /\ UNCHANGED sessionVars
  /\ UNCHANGED candidateVars
  /\ UNCHANGED storageVars

\* login, lines 33-35: await bcrypt.compare(password, user.password), then
\* generateTokens and the call of saveRefresh
LoginComparePassword(r) ==
  /\ req[r].op = "login" /\ req[r].pc = "comparePassword"
  /\ IF bcryptCompare(PasswordFirst72(req[r].password), req[r].user.password)
     THEN LET tokens == generateTokens(req[r].user.id, req[r].user.role, now) IN
          /\ req' = [req EXCEPT ![r].tokens = tokens, ![r].pc = "saveRefresh",
                       ![r].nowMs = now,
                       ![r].prior = {t \in issued : t.sub = req[r].user.id}
                                      \ {tokens.refreshToken}]
          /\ issued' = issued \cup {tokens.refreshToken}
     ELSE /\ throw(r, loginFailure(req[r].user))
          /\ UNCHANGED issued
  /\ UNCHANGED <<users, now, superseded, ops, ticks>>
  /\ UNCHANGED tenancyVars
  /\ UNCHANGED sessionVars
  /\ UNCHANGED candidateVars
  /\ UNCHANGED storageVars

\* A write that never reaches the table.
updateUserLost(r, hashedRefresh) ==
  /\ req' = [req EXCEPT ![r].hashedRefresh = hashedRefresh, ![r].pc = "return"]
  /\ UNCHANGED <<users, superseded>>

\* updateUser, lines 52-56: await this.findById(user_id), which throws when
\* the record is gone, then await this.userRepo.update(user_id, userDTO) with
\* userDTO = {refreshTokenHash: hashedRefresh}.  No operation deletes a user,
\* so nothing can come between the look-up and the write.
updateUser(r, hashedRefresh) ==
  IF findById(req[r].user.id) = NoUser
  THEN /\ req' = [req EXCEPT ![r].hashedRefresh = hashedRefresh,
                             ![r].pc = "done", ![r].outcome = NoUserFound]
       /\ UNCHANGED <<users, superseded>>
  ELSE /\ users' = [users EXCEPT ![req[r].user.id].refreshTokenHash = hashedRefresh]
       /\ superseded' = [superseded EXCEPT ![req[r].user.id] = @ \cup req[r].prior]
       /\ req' = [req EXCEPT ![r].hashedRefresh = hashedRefresh,
                             ![r].pc = "return", ![r].wrote = TRUE]

\* saveRefresh called without await: the caller goes on to its return while
\* the write is still to come.
saveRefreshNotAwaited(r) ==
  /\ req[r].pc = "saveRefresh"
  /\ req' = [req EXCEPT ![r].pc = "return"]
  /\ UNCHANGED <<users, superseded, now, issued, ops, ticks>>
  /\ UNCHANGED tenancyVars
  /\ UNCHANGED sessionVars
  /\ UNCHANGED candidateVars
  /\ UNCHANGED storageVars

\* saveRefresh, lines 48-53: hashedRefresh = await bcrypt.hash(refreshToken, 10),
\* which touches nothing shared, then await updateUser
saveRefresh(r) ==
  /\ req[r].pc = "saveRefresh"
  /\ updateUser(r, bcryptHash(JwtFirst72(req[r].tokens.refreshToken), req[r].salt))
  /\ UNCHANGED <<now, issued, ops, ticks>>
  /\ UNCHANGED tenancyVars
  /\ UNCHANGED sessionVars
  /\ UNCHANGED candidateVars
  /\ UNCHANGED storageVars

\* the return of login (lines 36-43) and of validateGenerateTokens (72, 76-79)
Return(r) ==
  /\ req[r].pc = "return"
  /\ req' = [req EXCEPT ![r].pc = "done", ![r].outcome = Ok]
  /\ UNCHANGED <<users, now, issued, superseded, ops, ticks>>
  /\ UNCHANGED tenancyVars
  /\ UNCHANGED sessionVars
  /\ UNCHANGED candidateVars
  /\ UNCHANGED storageVars

\* validateGenerateTokens, lines 56-59: the call, const user = await
\* findById(user_id), and the check of the stored hash
validateGenerateTokens(r, user_id, refreshToken) ==
  /\ freeSlot(r)
  /\ LET user == findById(user_id)
         call == [IdleReq EXCEPT
                    !.op = "refresh",
                    !.salt = FreshSalt,
                    !.user_id = user_id,
                    !.refreshToken = refreshToken,
                    !.nearAtStart =
                       (expiresInMs(decode(refreshToken).exp, now) <= OneDayMs),
                    !.stale = (user_id \in Rows
                               /\ refreshToken \in superseded[user_id]),
                    !.validAtStart =
                       (user_id \in Rows
                        /\ bcryptCompare(JwtFirst72(refreshToken),
                                         users[user_id].refreshTokenHash))]
     IN
       IF user = NoUser
       THEN req' = [req EXCEPT ![r] =
                      [call EXCEPT !.pc = "done", !.outcome = NoUserFound]]
       ELSE IF noRefreshTokenHash(user)
       THEN req' = [req EXCEPT ![r] =
                      [call EXCEPT !.user = user, !.pc = "done",
                                   !.outcome = YouNeedToLogin]]
       ELSE req' = [req EXCEPT ![r] =
                      [call EXCEPT !.user = user, !.pc = "compareToken"]]
  /\ ops' = ops + 1
  /\ UNCHANGED <<users, now, issued, superseded, ticks>>
  /\ UNCHANGED tenancyVars
  /\ UNCHANGED sessionVars
  /\ UNCHANGED candidateVars
  /\ UNCHANGED storageVars

\* The role claim of the presented token signed again.
roleOfToken(user, refreshToken) == refreshToken.role

\* The role validateGenerateTokens signs: user.role.name of the record it
\* fetched, whatever the presented token claims (lines 70 and 75).
roleToSign(user, refreshToken) == user.role

\* validateGenerateTokens, lines 60-79
ValidateCompareToken(r) ==
  /\ req[r].op = "refresh" /\ req[r].pc = "compareToken"
  /\ LET isTokenValid == bcryptCompare(JwtFirst72(req[r].refreshToken),
                                       req[r].user.refreshTokenHash)
         decoded == decode(req[r].refreshToken)
         tokens == generateTokens(req[r].user.id,
                                  roleToSign(req[r].user, req[r].refreshToken), now)
     IN
       IF req[r].user.refreshTokenHash = NoHash \/ ~typeofString(req[r].refreshToken)
       THEN /\ throw(r, BcryptError)
            /\ UNCHANGED issued
       ELSE IF ~isTokenValid
       THEN /\ throw(r, YouNeedToLogin)
            /\ UNCHANGED issued
       ELSE IF decoded.exp # 0 /\ nearExpiry(decoded.exp, now)
       THEN /\ req' = [req EXCEPT ![r].tokens = tokens, ![r].pc = "saveRefresh",
                         ![r].nowMs = now,
                         ![r].prior = {t \in issued : t.sub = req[r].user.id}
                                        \ {tokens.refreshToken}]
            /\ issued' = issued \cup {tokens.refreshToken}
       ELSE /\ req' = [req EXCEPT ![r].tokens =
                           [refreshToken |-> req[r].refreshToken,
                            accessToken |-> tokens.accessToken],
                         ![r].nowMs = now,
                         ![r].pc = "return"]
            /\ UNCHANGED issued
  /\ UNCHANGED <<users, now, superseded, ops, ticks>>
  /\ UNCHANGED tenancyVars
  /\ UNCHANGED sessionVars
  /\ UNCHANGED candidateVars
  /\ UNCHANGED storageVars

Tick(d) ==
  /\ ticks < MaxTicks
  /\ now' = now + d
  /\ ticks' = ticks + 1
  /\ UNCHANGED <<users, req, issued, superseded, ops>>
  /\ UNCHANGED tenancyVars
  /\ UNCHANGED sessionVars
  /\ UNCHANGED candidateVars
  /\ UNCHANGED storageVars

\* What a client sends to refresh: a token with the id it was issued to; the
\* first session's token for a user who has no session; for user 1 a string
\* that is no token, and the token of another user.
RefreshCalls ==
  {<<t.sub, t>> : t \in issued}
    \cup {<<2, FirstSession.refreshToken>>, <<1, Garbage>>}
    \cup {<<1, t>> : t \in {i \in issued : i.sub = 2}}

Next ==
  \/ \E r \in Reqs, c \in Credentials : ops < MaxOps /\ login(r, c[1], c[2])
  \/ \E r \in Reqs : LoginComparePassword(r)
  \/ \E r \in Reqs : saveRefresh(r)
  \/ \E r \in Reqs : Return(r)
  \/ \E r \in Reqs, c \in RefreshCalls :
       ops < MaxOps /\ validateGenerateTokens(r, c[1], c[2])
  \/ \E r \in Reqs : ValidateCompareToken(r)
  \/ \E d \in TickSteps : Tick(d)

Spec == Init /\ [][Next]_vars

\* --------------------------------------------------- RefreshTokenStrategy
Unauthorized == [exception |-> "UnauthorizedException", message |-> "Unauthorized"]

\* An extractor that falls back to the body when the cookie is no string.
jwtFromRequestOrBody(request) ==
  IF typeofString(request.cookies) THEN request.cookies ELSE request.body
\* jwtFromRequest, lines 116-121: the refreshToken cookie when it is a
\* string, else null (here NoCookie).
jwtFromRequest(request) ==
  IF typeofString(request.cookies) THEN request.cookies ELSE NoCookie

\* A verification that takes either secret.
verifyAnySecret(token, nowMs) ==
  token.kind \in {"access", "refresh"} /\ (nowMs \div 1000) < token.exp

\* verify without the check of exp.
verifyIgnoreExpiration(token, nowMs) == token.kind = "refresh"
\* passport-jwt verifies the token with secretOrKey (line 122), the refresh
\* secret: the signature must be one generateTokens made with that secret,
\* and the token is expired once the clock, in whole seconds, has reached exp.
verify(token, nowMs) == token.kind = "refresh" /\ (nowMs \div 1000) < token.exp

\* The refreshToken field of the request body.
reqBodyRefreshToken(request) == request.body
\* validate, line 147: const refreshToken = req.cookies?.refreshToken.
reqCookiesRefreshToken(request) == request.cookies

\* The guard of POST /auth/refresh: extraction and verification fail with
\* 401 before validate is called; else validate (lines 143-154) calls
\* validateGenerateTokens(payload.sub, req.cookies.refreshToken).
AuthGuardJwtRefresh(r, request) ==
  LET token == jwtFromRequest(request) IN
    IF token = NoCookie \/ ~verify(token, now)
    THEN /\ freeSlot(r)
         /\ req' = [req EXCEPT ![r] =
               [IdleReq EXCEPT !.op = "refreshTokens", !.pc = "done",
                               !.refreshToken = request.cookies,
                               !.nowMs = now, !.outcome = Unauthorized]]
         /\ ops' = ops + 1
         /\ UNCHANGED <<users, now, issued, superseded, ticks>>
         /\ UNCHANGED tenancyVars
         /\ UNCHANGED sessionVars
         /\ UNCHANGED candidateVars
         /\ UNCHANGED storageVars
    ELSE validateGenerateTokens(r, token.sub, reqCookiesRefreshToken(request))

\* The guard applied to the request the browser sent.
RefreshTokenStrategy(r) ==
  /\ ops < client.sent
  /\ AuthGuardJwtRefresh(r, client.request)

\* ----------------------------------------------------------------- browser
\* The refresh token the browser holds: the cookie of the last response that
\* set one (auth.controller.ts, lines 55-58), else the one it had.
LatestCookie ==
  IF req[1].pc = "done" /\ req[1].outcome = Ok /\ req[1].op = "refresh"
  THEN req[1].tokens.refreshToken
  ELSE client.cookie

\* The browser sends a request after a pause, once the response to the
\* previous one is in.
Present(request) ==
  /\ client.waited
  /\ ops = client.sent
  /\ \A r \in Reqs : req[r].pc \in {"idle", "done"}
  /\ client' = [client EXCEPT
       !.cookie = LatestCookie,
       !.request = request,
       !.sent = @ + 1,
       !.sentAt = IF request.cookies = LatestCookie THEN now ELSE @,
       !.steady = @ /\ (request.cookies = LatestCookie
                          => now - client.sentAt <= OneDayMs),
       !.waited = FALSE]
  /\ UNCHANGED authVars
  /\ UNCHANGED tenancyVars
  /\ UNCHANGED candidateVars
  /\ UNCHANGED storageVars

\* The browser pauses a day, or half a second less.
WaitSteps == {OneDayMs, OneDayMs - HalfSecondMs}

Wait(d) ==
  /\ client.waits < MaxWaits
  /\ ops = client.sent
  /\ \A r \in Reqs : req[r].pc \in {"idle", "done"}
  /\ now' = now + d
  /\ client' = [client EXCEPT !.waits = @ + 1, !.waited = TRUE]
  /\ UNCHANGED <<users, req, issued, superseded, ops, ticks>>
  /\ UNCHANGED tenancyVars
  /\ UNCHANGED candidateVars
  /\ UNCHANGED storageVars

SessionNext ==
  \/ \E d \in WaitSteps : Wait(d)
  \/ \E request \in RequestsOf(LatestCookie) : Present(request)
  \/ \E r \in Reqs : RefreshTokenStrategy(r)
  \/ \E r \in Reqs : ValidateCompareToken(r)
  \/ \E r \in Reqs : saveRefresh(r)
  \/ \E r \in Reqs : Return(r)

SessionSpec == SessionInit /\ [][SessionNext]_vars

\* ============================================================== accounts
\* registerUser, line 35: role_id: 1, the default role.
DefaultRole == RoleName(GhostId)
\* registerUserDTO, as register receives it: an email that is taken, and a
\* new one.
RegisterDTOs == {[email |-> e, password |-> "secret"] : e \in {1, GhostId}}

\* registerUser, line 32: throw new ConflictException
registerUserConflict(user) == EmailExists

\* register, line 19, as far as registerUser's await findByEmail(dto.email)
register(r, dto) ==
  /\ freeSlot(r)
  /\ LET user == findByEmail(dto.email)
         call == [IdleReq EXCEPT !.op = "register", !.salt = FreshSalt,
                                 !.email = dto.email, !.password = dto.password]
     IN
       req' = [req EXCEPT ![r] =
                 IF user # NoUser
                 THEN [call EXCEPT !.pc = "done", !.outcome = registerUserConflict(user)]
                 ELSE [call EXCEPT !.pc = "createInternalUser"]]
  /\ ops' = ops + 1
  /\ UNCHANGED <<users, now, issued, superseded, ticks>>
  /\ UNCHANGED tenancyVars
  /\ UNCHANGED sessionVars
  /\ UNCHANGED candidateVars
  /\ UNCHANGED storageVars

\* createInternalUser, lines 40-50: the password hashed, userRepo.save of a
\* row with the default role, no organization and no refreshTokenHash, and
\* findById of the new row; then register, line 20, generateTokens.  The
\* email column is unique: the save of a second registration of one email
\* fails.
createInternalUser(r) ==
  /\ req[r].op = "register" /\ req[r].pc = "createInternalUser"
  /\ IF findByEmail(req[r].email) # NoUser
     THEN /\ throw(r, QueryFailed)
          /\ UNCHANGED <<users, issued>>
     ELSE /\ \E id \in Rows : users[id] = NoUser
          /\ LET id == CHOOSE i \in Rows : users[i] = NoUser
                 newUser == [id |-> id, email |-> req[r].email,
                             password |-> bcryptHash(PasswordFirst72(req[r].password), id),
                             refreshTokenHash |-> NoHash,
                             role |-> DefaultRole, organization |-> 0]
                 tokens == generateTokens(newUser.id, newUser.role, now)
             IN
               /\ users' = [users EXCEPT ![id] = newUser]
               /\ req' = [req EXCEPT ![r].user = newUser, ![r].tokens = tokens,
                                     ![r].pc = "saveRefresh", ![r].nowMs = now]
               /\ issued' = issued \cup {tokens.refreshToken}
  /\ UNCHANGED <<now, superseded, ops, ticks>>
  /\ UNCHANGED tenancyVars
  /\ UNCHANGED sessionVars
  /\ UNCHANGED candidateVars
  /\ UNCHANGED storageVars

\* A bcrypt hash a client made of a string of its own.
ForgedHash == bcryptHash([sub |-> 0, role |-> "forged"], 0)
NoChange == [refreshTokenHash |-> NoHash, role |-> ""]
\* UpdateUserDTO, the values updateUserSchema lets through (full_name, email
\* and refreshTokenHash, each optional): one that carries a refreshTokenHash
\* and one that carries none.
UpdateUserDTOs == {NoChange, [NoChange EXCEPT !.refreshTokenHash = ForgedHash]}
\* updateUserByAdminSchema keeps role_id as well.
UpdateUserByAdminDTOs ==
  UpdateUserDTOs \cup {[NoChange EXCEPT !.role = n] : n \in {"admin", "user"}}

\* userRepo.update(user_id, userDTO): the columns the DTO carries are set.
update(user, dto) ==
  [user EXCEPT
     !.refreshTokenHash = IF dto.refreshTokenHash # NoHash THEN dto.refreshTokenHash ELSE @,
     !.role = IF dto.role # "" THEN dto.role ELSE @]

\* UserService.updateUser(user_id, userDTO) called with a DTO of a client:
\* await findById, then userRepo.update.
UpdateUser(u, dto) ==
  /\ findById(u) # NoUser
  /\ users' = [users EXCEPT ![u] = update(@, dto)]
  /\ ops' = ops + 1
  /\ UNCHANGED <<now, req, issued, superseded, ticks>>
  /\ UNCHANGED tenancyVars
  /\ UNCHANGED sessionVars
  /\ UNCHANGED candidateVars
  /\ UNCHANGED storageVars

\* UserService.updateUserByAdmin, lines 57-61
UpdateUserByAdmin(u, dto) ==
  /\ findById(u) # NoUser
  /\ users' = [users EXCEPT ![u] = update(@, dto)]
  /\ ops' = ops + 1
  /\ UNCHANGED <<now, req, issued, superseded, ticks>>
  /\ UNCHANGED tenancyVars
  /\ UNCHANGED sessionVars
  /\ UNCHANGED candidateVars
  /\ UNCHANGED storageVars

\* UserService.changePassword, lines 62-77: the old password compared, and
\* userRepo.update({id}, {password: hashedPass}).
ChangePassword(u, old_password, new_password) ==
  /\ findById(u) # NoUser
  /\ bcryptCompare(PasswordFirst72(old_password), users[u].password)
  /\ users' = [users EXCEPT ![u].password =
                 bcryptHash(PasswordFirst72(new_password), FreshSalt)]
  /\ ops' = ops + 1
  /\ UNCHANGED <<now, req, issued, superseded, ticks>>
  /\ UNCHANGED tenancyVars
  /\ UNCHANGED sessionVars
  /\ UNCHANGED candidateVars
  /\ UNCHANGED storageVars

\* The calls on the accounts of user 1 and of the user that registers:
\* logins with the right password, refreshes with a token the user was
\* issued.
Accounts == {1, GhostId}
AccountLogins == Accounts \X {"secret"}
AccountRefreshCalls == {<<t.sub, t>> : t \in {i \in issued : i.sub \in Accounts}}

AccountNext ==
  \/ \E r \in Reqs, dto \in RegisterDTOs : ops < MaxOps /\ register(r, dto)
  \/ \E r \in Reqs : createInternalUser(r)
  \/ \E r \in Reqs, c \in AccountLogins : ops < MaxOps /\ login(r, c[1], c[2])
  \/ \E r \in Reqs : LoginComparePassword(r)
  \/ \E r \in Reqs, c \in AccountRefreshCalls :
       ops < MaxOps /\ validateGenerateTokens(r, c[1], c[2])
  \/ \E r \in Reqs : ValidateCompareToken(r)
  \/ \E r \in Reqs : saveRefresh(r)
  \/ \E r \in Reqs : Return(r)
  \/ \E u \in Accounts, dto \in UpdateUserDTOs : ops < MaxOps /\ UpdateUser(u, dto)
  \/ \E u \in Accounts, dto \in UpdateUserByAdminDTOs :
       ops < MaxOps /\ UpdateUserByAdmin(u, dto)
  \/ \E u \in Accounts : ops < MaxOps /\ ChangePassword(u, "secret", "changed")
  \/ \E d \in TickSteps : Tick(d)

AccountSpec == Init /\ [][AccountNext]_vars

\* ---------------------------------------------------- AccessTokenStrategy
\* jwt.decode of a token generateTokens signed: its payload is {sub, role}
\* (auth.service.ts, lines 83-86), so it has no organizationId claim.
payloadOf(token) == Payload(token.sub, token.role, Undefined)

\* passport-jwt with secretOrKey JWT_ACCESS_SECRET: the signature must be
\* made with the access secret and exp must be in the future.
verifyAccess(token, nowMs) == token.kind = "access" /\ (nowMs \div 1000) < token.exp

\* validate, lines 17-32: the user is fetched again by payload.sub (findById
\* throws NotFoundException when there is none) and the object returned
\* becomes request.user.  It has the keys id, full_name, email, role and
\* permessions: no organizationId.
validate(payload) ==
  LET user == findById(payload.sub) IN
    [IdleReq EXCEPT !.op = "jwt", !.pc = "done", !.payload = payload,
                    !.user_id = payload.sub, !.user = user, !.nowMs = now,
                    !.principal = IF user = NoUser THEN NoRequestUser
                                  ELSE RequestUser(user.id, Undefined, user.role),
                    !.outcome = IF user = NoUser THEN NoUserFound ELSE Ok]

\* AuthGuard('jwt') on a request with the header Authorization: Bearer
\* <bearer>: 401 unless the token verifies, else validate on its payload.
AccessTokenStrategy(r, bearer) ==
  /\ freeSlot(r)
  /\ req' = [req EXCEPT ![r] =
        IF verifyAccess(bearer, now)
        THEN [validate(payloadOf(bearer)) EXCEPT !.bearer = bearer]
        ELSE [IdleReq EXCEPT !.op = "jwt", !.pc = "done", !.bearer = bearer,
                             !.nowMs = now, !.outcome = Unauthorized]]
  /\ ops' = ops + 1
  /\ UNCHANGED <<users, now, issued, superseded, ticks>>
  /\ UNCHANGED tenancyVars
  /\ UNCHANGED sessionVars
  /\ UNCHANGED candidateVars
  /\ UNCHANGED storageVars

\* strategy.validate(payload) called with a payload of any verified token,
\* one that carries an organizationId claim included.
Payloads ==
  {Payload(u, RoleName(u), o) : u \in UserIds, o \in {Undefined, Num(99)}}

AccessTokenStrategyValidate(r, payload) ==
  /\ freeSlot(r)
  /\ req' = [req EXCEPT ![r] = validate(payload)]
  /\ ops' = ops + 1
  /\ UNCHANGED <<users, now, issued, superseded, ticks>>
  /\ UNCHANGED tenancyVars
  /\ UNCHANGED sessionVars
  /\ UNCHANGED candidateVars
  /\ UNCHANGED storageVars

\* ------------------------------------------------------------ AuthController
\* A body that carries the whole token pair.
jsonTokenPair(tokens) == tokens
\* The JSON body of register, login and refreshTokens as far as tokens go.
json(tokens) == [accessToken |-> tokens.accessToken, refreshToken |-> NoToken]

\* register, login and refreshTokens after the service (or the guard) is
\* done: res.cookie('refreshToken', ..., {httpOnly, sameSite: 'strict'}) and
\* res.status(201).json(...); an exception is answered by its status.
Respond(r) ==
  /\ req[r].pc = "done"
  /\ req[r].op \in {"register", "login", "refresh", "refreshTokens"}
  /\ req' = [req EXCEPT ![r].pc = "responded",
        ![r].response =
          IF req[r].outcome = Ok
          THEN [status |-> 201, cookie |-> req[r].tokens.refreshToken,
                httpOnly |-> TRUE, sameSite |-> "strict",
                body |-> json(req[r].tokens)]
          ELSE [NoResponse EXCEPT !.status = getStatus(req[r].outcome)]]
  /\ UNCHANGED <<users, now, issued, superseded, ops, ticks>>
  /\ UNCHANGED tenancyVars
  /\ UNCHANGED sessionVars
  /\ UNCHANGED candidateVars
  /\ UNCHANGED storageVars

\* ----------------------------------------------------------------- identity
\* The tokens a client can hold: those of the session open at the start and
\* those of the calls that have returned.
HeldTokens ==
  ({FirstSession.accessToken, FirstSession.refreshToken}
     \cup {req[q].tokens.accessToken : q \in Reqs}
     \cup {req[q].tokens.refreshToken : q \in Reqs}) \ {NoToken}
IdentityLogins == UserIds \X {"secret"}
RoleChanges == {[NoChange EXCEPT !.role = n] : n \in {"admin", "user"}}

\* The session of user 1 was opened half a second ago: both its tokens are
\* still within their lifetime.
IdentityInit == InitStore /\ now = HalfSecondMs

IdentityNext ==
  \/ \E r \in Reqs, c \in IdentityLogins : ops < MaxOps /\ login(r, c[1], c[2])
  \/ \E r \in Reqs : LoginComparePassword(r)
  \/ \E r \in Reqs, t \in HeldTokens :
       ops < MaxOps /\ AuthGuardJwtRefresh(r, RefreshRequest(t, NoCookie))
  \/ \E r \in Reqs : ValidateCompareToken(r)
  \/ \E r \in Reqs : saveRefresh(r)
  \/ \E r \in Reqs : Return(r)
  \/ \E r \in Reqs, t \in HeldTokens : ops < MaxOps /\ AccessTokenStrategy(r, t)
  \/ \E r \in Reqs, payload \in Payloads :
       ops < MaxOps /\ AccessTokenStrategyValidate(r, payload)
  \/ \E u \in UserIds, dto \in RoleChanges : ops < MaxOps /\ UpdateUserByAdmin(u, dto)
  \/ \E d \in TickSteps : Tick(d)

IdentitySpec == IdentityInit /\ [][IdentityNext]_vars

\* ------------------------------------------------- the three auth routes
\* POST /auth/register, /auth/login and /auth/refresh, each from the request
\* to the response the controller writes.
NewAccount == [email |-> GhostId, password |-> "secret"]
RouteLogins == {<<1, "secret">>, <<1, "wrong">>}

ControllerNext ==
  \/ \E r \in Reqs : ops < MaxOps /\ register(r, NewAccount)
  \/ \E r \in Reqs : createInternalUser(r)
  \/ \E r \in Reqs, c \in RouteLogins : ops < MaxOps /\ login(r, c[1], c[2])
  \/ \E r \in Reqs : LoginComparePassword(r)
  \/ \E r \in Reqs, t \in issued, body \in issued \cup {NoCookie} :
       ops < MaxOps /\ AuthGuardJwtRefresh(r, RefreshRequest(t, body))
  \/ \E r \in Reqs : ValidateCompareToken(r)
  \/ \E r \in Reqs : saveRefresh(r)
  \/ \E r \in Reqs : Return(r)
  \/ \E r \in Reqs : Respond(r)
  \/ \E d \in TickSteps : Tick(d)

ControllerSpec == Init /\ [][ControllerNext]_vars

\* --------------------------------------------------- TenantContextService
\* run with one module-level slot in place of a store per async context.
runShared(store, asyncId, context) == [a \in DOMAIN store |-> context]
\* run as enterWith: the caller's context keeps the store after the callback.
runEnterWith(store, asyncId, context) ==
  [a \in DOMAIN store |->
     IF a \in {asyncId, asyncId - NumHttp} THEN context ELSE store[a]]
\* run that calls the callback without giving it a store.
runCallbackOnly(store, asyncId, context) == store
\* run(context, callback) = storage.run(context, callback): the callback, and
\* every continuation created under it, executes in an async context whose
\* store is context; the caller's context keeps the store it had.
run(store, asyncId, context) == [store EXCEPT ![asyncId] = context]

\* getContext() = storage.getStore() of the executing async context.
getContext(store, asyncId) == store[asyncId]

\* getOrganizationId with a default tenant in place of the error.
getOrganizationIdOrDefault(store, asyncId) ==
  IF getContext(store, asyncId) = NoStore
  THEN Returned(Num(0))
  ELSE Returned(getContext(store, asyncId).organizationId)
\* getOrganizationId and getUserId throw Error('No tenant context
\* available...') when getContext() is undefined.
getOrganizationId(store, asyncId) ==
  IF getContext(store, asyncId) = NoStore
  THEN Threw
  ELSE Returned(getContext(store, asyncId).organizationId)

getUserId(store, asyncId) ==
  IF getContext(store, asyncId) = NoStore
  THEN Threw
  ELSE Returned(getContext(store, asyncId).userId)

hasContext(store, asyncId) == store[asyncId] # NoStore

\* One turn of a handler: what the service answers in context asyncId.
reads(store, asyncId, after) ==
  [context |-> getContext(store, asyncId),
   organizationId |-> getOrganizationId(store, asyncId),
   userId |-> getUserId(store, asyncId),
   hasContext |-> hasContext(store, asyncId),
   after |-> after]

\* ----------------------------------------------------- TenancyInterceptor
\* user.organizationId === undefined in place of the test of line 44.
undefinedOrganizationId(user) == user.organizationId = Undefined
\* !user.organizationId && user.organizationId !== 0
missingOrganizationId(user) ==
  falsy(user.organizationId) /\ user.organizationId # Num(0)

\* intercept, the subscription of the observable it returns, and the
\* handler's first turn up to its first await.
intercept(r, user) ==
  /\ arrivals < MaxArrivals
  /\ hreq[r].pc \in HttpDone
  /\ arrivals' = arrivals + 1
  /\ IF ~user.present
     THEN \* return next.handle(): the handler runs where the request arrived
          /\ hreq' = [hreq EXCEPT ![r] =
                [IdleHttp EXCEPT !.pc = "suspended", !.user = user,
                                 !.asyncId = requestContext(r),
                                 !.first = reads(stores, requestContext(r), lastRun),
                                 !.seen = reads(stores, requestContext(r), lastRun)]]
          /\ UNCHANGED <<stores, lastRun>>
     ELSE IF missingOrganizationId(user)
     THEN \* throw new UnauthorizedException
          /\ hreq' = [hreq EXCEPT ![r] =
                [IdleHttp EXCEPT !.pc = "rejected", !.user = user]]
          /\ UNCHANGED <<stores, lastRun>>
     ELSE LET tenantData == TenantContextData(user.organizationId, user.id, user.role)
              entered == run(stores, scopeContext(r), tenantData)
          IN /\ stores' = entered
             /\ lastRun' = r
             /\ hreq' = [hreq EXCEPT ![r] =
                   [IdleHttp EXCEPT !.pc = "suspended", !.user = user,
                                    !.asyncId = scopeContext(r),
                                    !.installed = tenantData,
                                    !.first = reads(entered, scopeContext(r), r),
                                    !.seen = reads(entered, scopeContext(r), r),
                                    !.afterRun = getContext(entered, requestContext(r))]]
  /\ UNCHANGED authVars
  /\ UNCHANGED sessionVars
  /\ UNCHANGED candidateVars
  /\ UNCHANGED storageVars

\* A continuation of the handler is resumed in the async context it was
\* created in, reads the context and awaits again.
Resume(r) ==
  /\ hreq[r].pc = "suspended"
  /\ hreq[r].awaits < MaxAwaits
  /\ hreq' = [hreq EXCEPT ![r].seen = reads(stores, hreq[r].asyncId, lastRun),
                          ![r].awaits = @ + 1]
  /\ UNCHANGED <<stores, lastRun, arrivals, pipeline>>
  /\ UNCHANGED authVars
  /\ UNCHANGED sessionVars
  /\ UNCHANGED candidateVars
  /\ UNCHANGED storageVars

\* The last continuation reads the context and the response is sent.
Complete(r) ==
  /\ hreq[r].pc = "suspended"
  /\ hreq' = [hreq EXCEPT ![r].seen = reads(stores, hreq[r].asyncId, lastRun),
                          ![r].pc = "complete"]
  /\ UNCHANGED <<stores, lastRun, arrivals, pipeline>>
  /\ UNCHANGED authVars
  /\ UNCHANGED sessionVars
  /\ UNCHANGED candidateVars
  /\ UNCHANGED storageVars

\* The handler, or a service it awaits, throws: subscriber.error(err).
Fail(r) ==
  /\ hreq[r].pc = "suspended"
  /\ hreq' = [hreq EXCEPT ![r].seen = reads(stores, hreq[r].asyncId, lastRun),
                          ![r].pc = "failed"]
  /\ UNCHANGED <<stores, lastRun, arrivals, pipeline>>
  /\ UNCHANGED authVars
  /\ UNCHANGED sessionVars
  /\ UNCHANGED candidateVars
  /\ UNCHANGED storageVars

\* The client goes away while the handler is suspended.  The observable
\* intercept returns has no teardown, so what the handler awaits still runs,
\* in the async context it was created in; the worker is free at once.
Cancel(r) ==
  /\ hreq[r].pc = "suspended"
  /\ hreq' = [hreq EXCEPT ![r].pc = "cancelled"]
  /\ UNCHANGED <<stores, lastRun, arrivals, pipeline>>
  /\ UNCHANGED authVars
  /\ UNCHANGED sessionVars
  /\ UNCHANGED candidateVars
  /\ UNCHANGED storageVars

\* A guard that lets a request without credentials through.
canActivateOptional(request) == TRUE
\* The guards of the route: none on login and register, AuthGuard of the
\* route's strategy elsewhere, which answers 401 unless the strategy
\* authenticated the request and attached request.user.
canActivate(request) == request.route = "auth/login" \/ request.user.present

\* The workers are interchangeable, and a request is taken by the lowest one
\* whose previous request is over.
freeWorker(r) ==
  /\ hreq[r].pc \in HttpDone
  /\ \A q \in HttpReqs : q < r => hreq[q].pc \notin HttpDone

\* A request on worker r: guards first, then the interceptors (the global
\* one, and on CandidateController the same one again, which runs the same
\* context inside the first), then the handler.
handle(r, request) ==
  /\ freeWorker(r)
  /\ pipeline' = [pipeline EXCEPT ![r] =
        [route |-> request.route,
         prev |-> IF hreq[r].installed # NoStore THEN hreq[r].pc ELSE "none"]]
  /\ IF canActivate(request)
     THEN intercept(r, request.user)
     ELSE /\ arrivals < MaxArrivals
          /\ arrivals' = arrivals + 1
          /\ hreq' = [hreq EXCEPT ![r] = [IdleHttp EXCEPT !.pc = "unauthorized"]]
          /\ UNCHANGED <<stores, lastRun>>
          /\ UNCHANGED authVars
          /\ UNCHANGED sessionVars
          /\ UNCHANGED candidateVars
          /\ UNCHANGED storageVars

TenancyNext ==
  \/ \E r \in HttpReqs, request \in HttpRequests : handle(r, request)
  \/ \E r \in HttpReqs : Resume(r)
  \/ \E r \in HttpReqs : Complete(r)
  \/ \E r \in HttpReqs : Fail(r)
  \/ \E r \in HttpReqs : Cancel(r)

TenancySpec == Init /\ [][TenancyNext]_vars

\* Requests to the tenant-scoped routes by users with and without an
\* organization: organizationId undefined, null, 0 and 1.
OrganizationUsers ==
  { RequestUser(1, Undefined, "admin"),
    RequestUser(2, Null, "user"),
    RequestUser(3, Num(0), "user"),
    RequestUser(4, Num(1), "admin") }

OrganizationNext ==
  \/ \E r \in HttpReqs, user \in OrganizationUsers :
       handle(r, HttpRequest("candidates", user))
  \/ \E r \in HttpReqs : Resume(r)
  \/ \E r \in HttpReqs : Complete(r)
  \/ \E r \in HttpReqs : Fail(r)

OrganizationSpec == Init /\ [][OrganizationNext]_vars

\* --------------------------------------------------------- CandidateService
\* Calls take the lowest free slot.
freeCall(c) ==
  /\ creq[c].pc \in {"idle", "done"}
  /\ \A d \in Calls : d < c => creq[d].pc \notin {"idle", "done"}

\* candidateRepo.findOne({where: {id, organizationId}}), findById lines
\* 109-114: the row, NoCandidate for null.
findOneByIdAnyOrganization(id, organizationId) ==
  IF id \in CandidateIds THEN candidates[id] ELSE NoCandidate
findOneById(id, organizationId) ==
  IF id \in CandidateIds /\ candidates[id] # NoCandidate
       /\ candidates[id].organizationId = organizationId
  THEN candidates[id] ELSE NoCandidate

\* candidateRepo.findOne({where: {email, organizationId}}), create lines 50-52
findOneByEmail(email, organizationId) ==
  IF \E id \in CandidateIds : candidates[id] # NoCandidate
                                /\ candidates[id].email = email
                                /\ candidates[id].organizationId = organizationId
  THEN candidates[CHOOSE id \in CandidateIds :
                     candidates[id] # NoCandidate /\ candidates[id].email = email
                       /\ candidates[id].organizationId = organizationId]
  ELSE NoCandidate

\* The rows of state_history with the candidateId, in table order.
historyOf(candidateId) ==
  SelectSeq(stateHistory, LAMBDA h : h.candidateId = candidateId)

CandidateCall(op, context, id) ==
  [IdleCall EXCEPT !.op = op, !.context = context, !.id = id]

candidateThrow(c, exception) ==
  creq' = [creq EXCEPT ![c].pc = "done", ![c].outcome = exception]

\* create, lines 46-61: the organization of the context, the duplicate check
\* within it, and the entity to save.  The table can generate one more id
\* for every create that has not saved yet.
create(c, context, email) ==
  /\ freeCall(c)
  /\ lastCandidateId
       + Cardinality({d \in Calls : creq[d].op = "create" /\ creq[d].pc = "save"})
       < MaxCandidates
  /\ LET existing == findOneByEmail(email, context.organizationId)
         call == CandidateCall("create", context, 0)
     IN creq' = [creq EXCEPT ![c] =
          IF existing # NoCandidate
          THEN [call EXCEPT !.pc = "done", !.outcome = CandidateExists]
          ELSE [call EXCEPT !.pc = "save",
                            !.candidate = Candidate(0, email, "NEW", context.organizationId),
                            !.fromState = "NEW", !.toState = "NEW"]]
  /\ calls' = calls + 1
  /\ UNCHANGED <<candidates, lastCandidateId, stateHistory>>
  /\ UNCHANGED authVars
  /\ UNCHANGED tenancyVars
  /\ UNCHANGED sessionVars
  /\ UNCHANGED storageVars

\* create, line 63: candidateRepo.save inserts the row under a generated id;
\* the email column is unique over the whole table.
createSave(c) ==
  /\ creq[c].op = "create" /\ creq[c].pc = "save"
  /\ IF \E id \in CandidateIds : candidates[id] # NoCandidate
                                   /\ candidates[id].email = creq[c].candidate.email
     THEN /\ candidateThrow(c, QueryFailed)
          /\ UNCHANGED <<candidates, lastCandidateId>>
     ELSE LET saved == [creq[c].candidate EXCEPT !.id = lastCandidateId + 1] IN
          /\ candidates' = [candidates EXCEPT ![saved.id] = saved]
          /\ lastCandidateId' = saved.id
          /\ creq' = [creq EXCEPT ![c].candidate = saved, ![c].id = saved.id,
                                  ![c].pc = "logStateChange"]
  /\ UNCHANGED <<stateHistory, calls>>
  /\ UNCHANGED authVars
  /\ UNCHANGED tenancyVars
  /\ UNCHANGED sessionVars
  /\ UNCHANGED storageVars

\* The user logStateChange records (line 217).
getUserIdOf(context) == context.userId

\* logStateChange, lines 211-228, as create (line 66) and transitionState
\* (line 175) call it: a row of state_history with the user of the context.
\* The row refers to the candidate: the insert fails when it is gone.
logStateChange(c) ==
  /\ creq[c].pc = "logStateChange"
  /\ IF candidates[creq[c].id] = NoCandidate
     THEN /\ candidateThrow(c, QueryFailed)
          /\ UNCHANGED stateHistory
     ELSE /\ stateHistory' = Append(stateHistory,
               StateHistory(creq[c].id, creq[c].fromState, creq[c].toState,
                            getUserIdOf(creq[c].context)))
          /\ creq' = [creq EXCEPT ![c].pc = "done", ![c].outcome = Ok]
  /\ UNCHANGED <<candidates, lastCandidateId, calls>>
  /\ UNCHANGED authVars
  /\ UNCHANGED tenancyVars
  /\ UNCHANGED sessionVars
  /\ UNCHANGED storageVars

\* CandidateService.findById, lines 108-122
candidateFindById(c, context, id) ==
  /\ freeCall(c)
  /\ LET candidate == findOneById(id, context.organizationId)
         call == CandidateCall("findById", context, id)
     IN creq' = [creq EXCEPT ![c] =
          IF candidate = NoCandidate
          THEN [call EXCEPT !.pc = "done", !.outcome = CandidateNotFound]
          ELSE [call EXCEPT !.pc = "done", !.outcome = Ok,
                            !.candidate = candidate, !.found = {candidate},
                            !.history = historyOf(candidate.id)]]
  /\ calls' = calls + 1
  /\ UNCHANGED <<candidates, lastCandidateId, stateHistory>>
  /\ UNCHANGED authVars
  /\ UNCHANGED tenancyVars
  /\ UNCHANGED sessionVars
  /\ UNCHANGED storageVars

\* findAll, lines 79-103: the rows of the organization, of one state when
\* the query names one ("" for none).
findAll(c, context, state) ==
  /\ freeCall(c)
  /\ creq' = [creq EXCEPT ![c] =
        [CandidateCall("findAll", context, 0) EXCEPT
           !.pc = "done", !.outcome = Ok,
           !.found = {candidates[id] : id \in
                        {i \in CandidateIds :
                           /\ candidates[i] # NoCandidate
                           /\ candidates[i].organizationId = context.organizationId
                           /\ state # "" => candidates[i].state = state}}]]
  /\ calls' = calls + 1
  /\ UNCHANGED <<candidates, lastCandidateId, stateHistory>>
  /\ UNCHANGED authVars
  /\ UNCHANGED tenancyVars
  /\ UNCHANGED sessionVars
  /\ UNCHANGED storageVars

\* The first await of update, transitionState, delete and getStateHistory:
\* const candidate = await this.findById(id).
\* update, lines 127-143, with a dto that has no email: Object.assign and
\* the entity to save.
candidateUpdate(c, context, id) ==
  /\ freeCall(c)
  /\ LET candidate == findOneById(id, context.organizationId)
         call == CandidateCall("update", context, id)
     IN creq' = [creq EXCEPT ![c] =
          IF candidate = NoCandidate
          THEN [call EXCEPT !.pc = "done", !.outcome = CandidateNotFound]
          ELSE [call EXCEPT !.pc = "save", !.candidate = candidate]]
  /\ calls' = calls + 1
  /\ UNCHANGED <<candidates, lastCandidateId, stateHistory>>
  /\ UNCHANGED authVars
  /\ UNCHANGED tenancyVars
  /\ UNCHANGED sessionVars
  /\ UNCHANGED storageVars

\* transitionState, lines 155-172
transitionState(c, context, id, toState) ==
  /\ freeCall(c)
  /\ LET candidate == findOneById(id, context.organizationId)
         call == [CandidateCall("transitionState", context, id) EXCEPT !.toState = toState]
     IN creq' = [creq EXCEPT ![c] =
          IF candidate = NoCandidate
          THEN [call EXCEPT !.pc = "done", !.outcome = CandidateNotFound]
          ELSE IF toState \notin VALID_STATE_TRANSITIONS(candidate.state)
          THEN [call EXCEPT !.pc = "done", !.outcome = CannotTransition,
                            !.fromState = candidate.state]
          ELSE [call EXCEPT !.pc = "save", !.fromState = candidate.state,
                            !.candidate = [candidate EXCEPT !.state = toState]]]
  /\ calls' = calls + 1
  /\ UNCHANGED <<candidates, lastCandidateId, stateHistory>>
  /\ UNCHANGED authVars
  /\ UNCHANGED tenancyVars
  /\ UNCHANGED sessionVars
  /\ UNCHANGED storageVars

\* candidateRepo.save(candidate) of update (line 144) and transitionState
\* (line 174).  save reads the row with the entity's id and writes every
\* column in which the entity differs from it, so the row becomes the entity
\* of the call; when the row is gone it inserts the entity under its id.
save(c) ==
  /\ creq[c].op \in {"update", "transitionState"} /\ creq[c].pc = "save"
  /\ candidates' = [candidates EXCEPT ![creq[c].id] = creq[c].candidate]
  /\ creq' = [creq EXCEPT
        ![c].pc = IF creq[c].op = "update" THEN "done" ELSE "logStateChange",
        ![c].outcome = IF creq[c].op = "update" THEN Ok ELSE Pending]
  /\ UNCHANGED <<lastCandidateId, stateHistory, calls>>
  /\ UNCHANGED authVars
  /\ UNCHANGED tenancyVars
  /\ UNCHANGED sessionVars
  /\ UNCHANGED storageVars

\* delete, lines 197-203
delete(c, context, id) ==
  /\ freeCall(c)
  /\ LET candidate == findOneById(id, context.organizationId)
         call == CandidateCall("delete", context, id)
     IN creq' = [creq EXCEPT ![c] =
          IF candidate = NoCandidate
          THEN [call EXCEPT !.pc = "done", !.outcome = CandidateNotFound]
          ELSE IF candidate.state = "HIRED"
          THEN [call EXCEPT !.pc = "done", !.outcome = CannotDeleteHired,
                            !.candidate = candidate]
          ELSE [call EXCEPT !.pc = "remove", !.candidate = candidate]]
  /\ calls' = calls + 1
  /\ UNCHANGED <<candidates, lastCandidateId, stateHistory>>
  /\ UNCHANGED authVars
  /\ UNCHANGED tenancyVars
  /\ UNCHANGED sessionVars
  /\ UNCHANGED storageVars

\* delete, line 205: candidateRepo.remove deletes the row with the entity's
\* id; its state_history rows go with it (onDelete: 'CASCADE').
remove(c) ==
  /\ creq[c].op = "delete" /\ creq[c].pc = "remove"
  /\ candidates' = [candidates EXCEPT ![creq[c].id] = NoCandidate]
  /\ stateHistory' = SelectSeq(stateHistory, LAMBDA h : h.candidateId # creq[c].id)
  /\ creq' = [creq EXCEPT ![c].pc = "done", ![c].outcome = Ok]
  /\ UNCHANGED <<lastCandidateId, calls>>
  /\ UNCHANGED authVars
  /\ UNCHANGED tenancyVars
  /\ UNCHANGED sessionVars
  /\ UNCHANGED storageVars

\* getStateHistory, lines 183-185
getStateHistory(c, context, candidateId) ==
  /\ freeCall(c)
  /\ LET candidate == findOneById(candidateId, context.organizationId)
         call == CandidateCall("getStateHistory", context, candidateId)
     IN creq' = [creq EXCEPT ![c] =
          IF candidate = NoCandidate
          THEN [call EXCEPT !.pc = "done", !.outcome = CandidateNotFound]
          ELSE [call EXCEPT !.pc = "find", !.candidate = candidate]]
  /\ calls' = calls + 1
  /\ UNCHANGED <<candidates, lastCandidateId, stateHistory>>
  /\ UNCHANGED authVars
  /\ UNCHANGED tenancyVars
  /\ UNCHANGED sessionVars
  /\ UNCHANGED storageVars

\* getStateHistory, lines 187-191: historyRepo.find({where: {candidateId}})
historyFind(c) ==
  /\ creq[c].op = "getStateHistory" /\ creq[c].pc = "find"
  /\ creq' = [creq EXCEPT ![c].pc = "done", ![c].outcome = Ok,
                          ![c].history = historyOf(creq[c].id)]
  /\ UNCHANGED <<candidates, lastCandidateId, stateHistory, calls>>
  /\ UNCHANGED authVars
  /\ UNCHANGED tenancyVars
  /\ UNCHANGED sessionVars
  /\ UNCHANGED storageVars

\* The ids a request can name: the rows of the table and one beyond them.
RequestedIds == CandidateIds
\* The emails of a create: one that a candidate of organization 1 has, one
\* that nobody has.
NewEmails == {1, 3}

\* Creations and transitions by the recruiters of both organizations.
TransitionNext ==
  \/ \E c \in Calls, context \in TenantContexts, email \in NewEmails :
       calls < MaxCalls /\ create(c, context, email)
  \/ \E c \in Calls : createSave(c)
  \/ \E c \in Calls : logStateChange(c)
  \/ \E c \in Calls, context \in TenantContexts, id \in RequestedIds,
        toState \in CandidateState :
       calls < MaxCalls /\ transitionState(c, context, id, toState)
  \/ \E c \in Calls : save(c)

TransitionSpec == Init /\ [][TransitionNext]_vars

\* Transitions and updates.
WorkflowNext ==
  \/ \E c \in Calls : logStateChange(c)
  \/ \E c \in Calls, context \in TenantContexts, id \in RequestedIds :
       calls < MaxCalls /\ candidateUpdate(c, context, id)
  \/ \E c \in Calls, context \in TenantContexts, id \in RequestedIds,
        toState \in CandidateState :
       calls < MaxCalls /\ transitionState(c, context, id, toState)
  \/ \E c \in Calls : save(c)

WorkflowSpec == Init /\ [][WorkflowNext]_vars

\* The whole life of the candidates: creation, updates, transitions and
\* deletion.
HiringNext ==
  \/ \E c \in Calls, context \in TenantContexts, email \in NewEmails :
       calls < MaxCalls /\ create(c, context, email)
  \/ \E c \in Calls : createSave(c)
  \/ \E c \in Calls : logStateChange(c)
  \/ \E c \in Calls, context \in TenantContexts, id \in RequestedIds :
       calls < MaxCalls /\ candidateUpdate(c, context, id)
  \/ \E c \in Calls, context \in TenantContexts, id \in RequestedIds,
        toState \in CandidateState :
       calls < MaxCalls /\ transitionState(c, context, id, toState)
  \/ \E c \in Calls : save(c)
  \/ \E c \in Calls, context \in TenantContexts, id \in RequestedIds :
       calls < MaxCalls /\ delete(c, context, id)
  \/ \E c \in Calls : remove(c)

HiringSpec == Init /\ [][HiringNext]_vars

\* Every operation of the service, by the recruiters of both organizations.
CandidateNext ==
  \/ \E c \in Calls, context \in TenantContexts, email \in NewEmails :
       calls < MaxCalls /\ create(c, context, email)
  \/ \E c \in Calls : createSave(c)
  \/ \E c \in Calls : logStateChange(c)
  \/ \E c \in Calls, context \in TenantContexts, state \in {"", "NEW"} :
       calls < MaxCalls /\ findAll(c, context, state)
  \/ \E c \in Calls, context \in TenantContexts, id \in RequestedIds :
       calls < MaxCalls /\ candidateFindById(c, context, id)
  \/ \E c \in Calls, context \in TenantContexts, id \in RequestedIds :
       calls < MaxCalls /\ candidateUpdate(c, context, id)
  \/ \E c \in Calls, context \in TenantContexts, id \in RequestedIds :
       calls < MaxCalls /\ transitionState(c, context, id, "REJECTED")
  \/ \E c \in Calls : save(c)
  \/ \E c \in Calls, context \in TenantContexts, id \in RequestedIds :
       calls < MaxCalls /\ getStateHistory(c, context, id)
  \/ \E c \in Calls : historyFind(c)
  \/ \E c \in Calls, context \in TenantContexts, id \in RequestedIds :
       calls < MaxCalls /\ delete(c, context, id)
  \/ \E c \in Calls : remove(c)

CandidateSpec == Init /\ [][CandidateNext]_vars

\* ------------------------------------------------------------ StorageService
freeStorageCall(s) ==
  /\ sreq[s].pc \in {"idle", "done"}
  /\ \A t \in StorageCalls : t < s => sreq[t].pc \notin {"idle", "done"}

\* getTenantBucket, lines 30-33, in the context the call runs in: the
\* bucket name, or the error of getOrganizationId.
getTenantBucketShared(context) ==
  LET orgId == getOrganizationId(<<context>>, 1) IN
    IF orgId.threw THEN Threw ELSE Returned(SharedBucket(orgId.value))
getTenantBucket(context) ==
  LET orgId == getOrganizationId(<<context>>, 1) IN
    IF orgId.threw THEN Threw ELSE Returned(TenantBucket(orgId.value))

StorageOperations ==
  {"downloadFile", "deleteFile", "deleteFiles", "listFiles", "fileExists",
   "getDownloadUrl"}

\* Each operation of StorageService, lines 38-106: const bucket =
\* this.getTenantBucket() and the call of the provider with it.  For
\* uploadFile the provider's upload starts with ensureBucketExists, which
\* returns at once for a bucket in the cache (lines 209-211).
StorageServiceCall(s, context, op, key) ==
  /\ freeStorageCall(s)
  /\ LET bucket == getTenantBucket(context)
         call == [IdleStorageCall EXCEPT !.op = op, !.context = context, !.key = key]
     IN sreq' = [sreq EXCEPT ![s] =
          IF bucket.threw
          THEN [call EXCEPT !.pc = "done", !.outcome = NoTenantContext]
          ELSE [call EXCEPT !.bucket = bucket.value,
                  !.pc = IF op # "uploadFile" THEN "send"
                         ELSE IF bucket.value \in bucketCache THEN "PutObject"
                         ELSE "HeadBucket"]]
  /\ scalls' = scalls + 1
  /\ UNCHANGED <<buckets, bucketCache, objects>>
  /\ UNCHANGED authVars
  /\ UNCHANGED tenancyVars
  /\ UNCHANGED sessionVars
  /\ UNCHANGED candidateVars

\* ensureBucketExists, lines 213-221: HeadBucket; the bucket goes into the
\* cache when it exists, else it is to be created.
HeadBucket(s) ==
  /\ sreq[s].pc = "HeadBucket"
  /\ IF sreq[s].bucket \in buckets
     THEN /\ bucketCache' = bucketCache \cup {sreq[s].bucket}
          /\ sreq' = [sreq EXCEPT ![s].pc = "PutObject",
                                  ![s].addressed = @ \cup {sreq[s].bucket}]
     ELSE /\ sreq' = [sreq EXCEPT ![s].pc = "CreateBucket",
                                  ![s].addressed = @ \cup {sreq[s].bucket}]
          /\ UNCHANGED bucketCache
  /\ UNCHANGED <<buckets, objects, scalls>>
  /\ UNCHANGED authVars
  /\ UNCHANGED tenancyVars
  /\ UNCHANGED sessionVars
  /\ UNCHANGED candidateVars

\* ensureBucketExists, lines 222-223: CreateBucket and the cache.  The store
\* refuses to create a bucket that exists; the error leaves upload.
CreateBucket(s) ==
  /\ sreq[s].pc = "CreateBucket"
  /\ IF sreq[s].bucket \in buckets
     THEN /\ sreq' = [sreq EXCEPT ![s].pc = "done",
                                  ![s].outcome = BucketAlreadyOwnedByYou]
          /\ UNCHANGED <<buckets, bucketCache>>
     ELSE /\ buckets' = buckets \cup {sreq[s].bucket}
          /\ bucketCache' = bucketCache \cup {sreq[s].bucket}
          /\ sreq' = [sreq EXCEPT ![s].pc = "PutObject"]
  /\ UNCHANGED <<objects, scalls>>
  /\ UNCHANGED authVars
  /\ UNCHANGED tenancyVars
  /\ UNCHANGED sessionVars
  /\ UNCHANGED candidateVars

\* upload, lines 117-128: PutObject and the path returned.
PutObject(s) ==
  /\ sreq[s].pc = "PutObject"
  /\ IF sreq[s].bucket \in buckets
     THEN /\ objects' = objects \cup {StorageObject(sreq[s].bucket, sreq[s].key)}
          /\ sreq' = [sreq EXCEPT ![s].pc = "done", ![s].outcome = Ok,
                        ![s].addressed = @ \cup {sreq[s].bucket},
                        ![s].result = {StorageObject(sreq[s].bucket, sreq[s].key)}]
     ELSE /\ sreq' = [sreq EXCEPT ![s].pc = "done", ![s].outcome = NoSuchBucket,
                        ![s].addressed = @ \cup {sreq[s].bucket}]
          /\ UNCHANGED objects
  /\ UNCHANGED <<buckets, bucketCache, scalls>>
  /\ UNCHANGED authVars
  /\ UNCHANGED tenancyVars
  /\ UNCHANGED sessionVars
  /\ UNCHANGED candidateVars

\* download, delete, deleteMany, listObjects, exists and getSignedUrl of the
\* provider (lines 134-259): one command on the bucket the service passed.
send(s) ==
  /\ sreq[s].pc = "send"
  /\ LET bucket == sreq[s].bucket
         object == StorageObject(bucket, sreq[s].key)
         listed == {o \in objects : o.bucket = bucket}
         op == sreq[s].op
         failure ==
           CASE op = "fileExists" \/ op = "getDownloadUrl" -> Ok
             [] bucket \notin buckets -> NoSuchBucket
             [] op = "downloadFile" /\ object \notin objects -> NoSuchKey
             [] OTHER -> Ok
     IN /\ sreq' = [sreq EXCEPT ![s].pc = "done", ![s].outcome = failure,
                      ![s].addressed = @ \cup {bucket},
                      ![s].result =
                        CASE failure # Ok -> {}
                          [] op = "listFiles" -> listed
                          [] op \in {"deleteFile", "deleteFiles"} -> {}
                          [] op = "getDownloadUrl" -> {object}
                          [] OTHER -> {object} \cap objects]
        /\ objects' = IF op \in {"deleteFile", "deleteFiles"} /\ failure = Ok
                      THEN objects \ {object} ELSE objects
  /\ UNCHANGED <<buckets, bucketCache, scalls>>
  /\ UNCHANGED authVars
  /\ UNCHANGED tenancyVars
  /\ UNCHANGED sessionVars
  /\ UNCHANGED candidateVars

StorageKeys == {1, 2}

StorageNext ==
  \/ \E s \in StorageCalls, context \in StorageContexts, key \in StorageKeys :
       scalls < MaxStorageCalls /\ StorageServiceCall(s, context, "uploadFile", key)
  \/ \E s \in StorageCalls, context \in StorageContexts, op \in StorageOperations :
       scalls < MaxStorageCalls /\ StorageServiceCall(s, context, op, 1)
  \/ \E s \in StorageCalls : HeadBucket(s)
  \/ \E s \in StorageCalls : CreateBucket(s)
  \/ \E s \in StorageCalls : PutObject(s)
  \/ \E s \in StorageCalls : send(s)

StorageSpec == Init /\ [][StorageNext]_vars

\* ================================================================== claims
Refreshing(r) == req[r].op = "refresh"
\* The call is at its return statement, about to hand req[r].tokens back.
Returning(r) == req[r].pc = "return"
Ended(r) == req[r].pc = "done"
\* What was left of the presented token when the call read the clock.
Remaining(r) == expiresInMs(req[r].refreshToken.exp, req[r].nowMs)
StoredHash(u) == users[u].refreshTokenHash
\* hash is a bcrypt hash of token.
IsHashOf(hash, token) == hash # NoHash /\ hash.pre = JwtFirst72(token)

InFlightOrDone(r) == hreq[r].pc \in {"suspended", "complete"}
Installed(r) == hreq[r].installed # NoStore

\* C1: with any requests in flight at once, each reading after any number of
\* suspensions, every getContext, getOrganizationId and getUserId made for a
\* request that installed a context through run returns what that request
\* installed, never what another request installed.
C1_NoCrossTalk ==
  \A r \in HttpReqs :
    (InFlightOrDone(r) /\ Installed(r)) =>
      /\ hreq[r].seen.context = hreq[r].installed
      /\ hreq[r].seen.organizationId = Returned(hreq[r].user.organizationId)
      /\ hreq[r].seen.userId = Returned(hreq[r].user.id)

\* Two requests in flight with different contexts; one was resumed after a
\* suspension and read after the other had installed its context.
C1_Witness ==
  \E r \in HttpReqs, q \in HttpReqs :
    /\ r # q
    /\ hreq[r].pc = "suspended" /\ hreq[q].pc = "suspended"
    /\ Installed(r) /\ Installed(q)
    /\ hreq[r].installed # hreq[q].installed
    /\ hreq[r].awaits >= 1
    /\ hreq[r].seen.after = q

\* C2: inside run(ctx, fn), getContext returns ctx in fn and after every
\* suspension and resumption of what fn awaited; outside every run scope (the
\* caller after run has returned, a handler that was never wrapped)
\* getContext returns undefined and hasContext returns false.
C2_ScopedContext ==
  \A r \in HttpReqs :
    /\ (InFlightOrDone(r) /\ Installed(r)) =>
         /\ getContext(stores, hreq[r].asyncId) = hreq[r].installed
         /\ hreq[r].seen.context = hreq[r].installed
         /\ hreq[r].seen.hasContext
    /\ (InFlightOrDone(r) /\ ~Installed(r)) =>
         /\ hreq[r].seen.context = NoStore
         /\ ~hreq[r].seen.hasContext
    /\ hreq[r].afterRun = NoStore

\* A wrapped request completed after the most suspensions, and an unwrapped
\* one read nothing after that request's run.
C2_Witness ==
  \E r \in HttpReqs, q \in HttpReqs :
    /\ hreq[r].pc = "complete" /\ Installed(r)
    /\ hreq[r].awaits = MaxAwaits
    /\ hreq[r].seen.context = hreq[r].installed
    /\ InFlightOrDone(q) /\ ~Installed(q)
    /\ hreq[q].seen.after = r
    /\ hreq[q].awaits >= 1
    /\ ~hreq[q].seen.hasContext

\* C3: a call of validateGenerateTokens whose token matched the stored hash
\* and had at most one day left (exactly one day included) returns another
\* refresh token than the presented one, and at its return the stored hash of
\* the user is a hash of the returned refresh token.
C3_RenewsNearExpiry ==
  \A r \in Reqs :
    (Refreshing(r) /\ Returning(r) /\ Remaining(r) <= OneDayMs) =>
      /\ req[r].tokens.refreshToken # req[r].refreshToken
      /\ req[r].tokens.refreshToken.kind = "refresh"
      /\ IsHashOf(StoredHash(req[r].user.id), req[r].tokens.refreshToken)

C3_Witness ==
  \E r \in Reqs :
    /\ Refreshing(r) /\ Returning(r) /\ Remaining(r) = OneDayMs
    /\ req[r].wrote
    /\ req[r].tokens.refreshToken # req[r].refreshToken

\* C4: a call of validateGenerateTokens whose token matched the stored hash
\* and had more than one day left returns the presented refresh token itself
\* with an access token signed during the call, and writes nothing.
C4_ReusesFarFromExpiry ==
  \A r \in Reqs :
    (Refreshing(r) /\ Returning(r) /\ Remaining(r) > OneDayMs) =>
      /\ req[r].tokens.refreshToken = req[r].refreshToken
      /\ req[r].tokens.accessToken =
           sign("access", req[r].user.id, req[r].user.role, req[r].nowMs, AccessTtlSec)
      /\ ~req[r].wrote
      /\ req[r].hashedRefresh = NoHash

C4_Witness ==
  \E r \in Reqs :
    /\ Refreshing(r) /\ Returning(r)
    /\ Remaining(r) = OneDayMs + HalfSecondMs
    /\ req[r].tokens.refreshToken = req[r].refreshToken

\* C5: validateGenerateTokens for a user whose stored refreshTokenHash is null
\* ends with UnauthorizedException (401) whatever the token, gives no tokens
\* and writes nothing.
C5_NoSessionRejected ==
  \A r \in Reqs :
    (Refreshing(r) /\ Ended(r) /\ req[r].user # NoUser
       /\ req[r].user.refreshTokenHash = NoHash) =>
      /\ req[r].outcome = YouNeedToLogin
      /\ getStatus(req[r].outcome) = 401
      /\ req[r].tokens = NoTokens
      /\ ~req[r].wrote

C5_Witness ==
  \E r \in Reqs :
    /\ Refreshing(r) /\ Ended(r)
    /\ req[r].user # NoUser /\ req[r].user.refreshTokenHash = NoHash
    /\ req[r].refreshToken \in issued
    /\ req[r].outcome = YouNeedToLogin

\* C6: validateGenerateTokens with a token that does not match the stored
\* hash of the user ends with UnauthorizedException (401), gives no tokens
\* and does not write the hash.
C6_MismatchRejected ==
  \A r \in Reqs :
    (Refreshing(r) /\ Ended(r) /\ req[r].user # NoUser
       /\ req[r].user.refreshTokenHash # NoHash
       /\ ~IsHashOf(req[r].user.refreshTokenHash, req[r].refreshToken)) =>
      /\ req[r].outcome = YouNeedToLogin
      /\ getStatus(req[r].outcome) = 401
      /\ req[r].tokens = NoTokens
      /\ ~req[r].wrote

C6_Witness ==
  \E r \in Reqs :
    /\ Refreshing(r) /\ Ended(r)
    /\ req[r].user.refreshTokenHash # NoHash
    /\ ~IsHashOf(req[r].user.refreshTokenHash, req[r].refreshToken)
    /\ req[r].outcome = YouNeedToLogin

\* C7: once a login or a renewal for a user has stored a new hash, every
\* refresh token issued to that user before that operation is rejected with
\* UnauthorizedException by validateGenerateTokens.
C7_SupersededRejected ==
  \A r \in Reqs :
    (Refreshing(r) /\ req[r].stale /\ req[r].pc \in {"return", "done"}) =>
      req[r].outcome = YouNeedToLogin

\* C8: whenever login returns, the stored refreshTokenHash of the user is a
\* hash of the refresh token the call returns, whatever other logins and
\* refreshes of the same user ran in between.
C8_LoginStoresReturned ==
  \A r \in Reqs :
    (req[r].op = "login" /\ Returning(r)) =>
      IsHashOf(StoredHash(req[r].user.id), req[r].tokens.refreshToken)

\* A login at its return whose own write was overwritten by another call.
C8_Witness ==
  \E r \in Reqs, q \in Reqs :
    /\ r # q
    /\ req[r].op = "login" /\ Returning(r) /\ req[r].wrote
    /\ req[q].wrote /\ req[q].user.id = req[r].user.id
    /\ req[q].tokens.refreshToken # req[r].tokens.refreshToken
    /\ StoredHash(req[r].user.id) = req[q].hashedRefresh

\* C9: login with an email no user has and login with a wrong password end the
\* same way: BadRequestException 'Invalid credentials', status 400, no tokens,
\* nothing written.
LoginFails(r) ==
  /\ req[r].op = "login" /\ Ended(r)
  /\ \/ req[r].email \notin UserIds
     \/ req[r].password # "secret"

C9_LoginFailuresAlike ==
  /\ \A r \in Reqs :
       LoginFails(r) =>
         /\ req[r].outcome = InvalidCredentials
         /\ getStatus(req[r].outcome) = 400
         /\ req[r].tokens = NoTokens
         /\ ~req[r].wrote
  /\ \A r \in Reqs, q \in Reqs :
       (LoginFails(r) /\ LoginFails(q)) => req[r].outcome = req[q].outcome

C9_Witness ==
  \E r \in Reqs, q \in Reqs :
    /\ LoginFails(r) /\ req[r].email \notin UserIds
    /\ LoginFails(q) /\ req[q].email \in UserIds /\ req[q].password = "wrong"
    /\ req[r].outcome = req[q].outcome

\* C10: two overlapping refresh calls that present the same refresh token,
\* valid and within its last day when each was made: at least one succeeds
\* with a renewal that advances the stored hash, and each of them either
\* succeeds or ends with UnauthorizedException.
SameRenewal(r, q) ==
  /\ r # q
  /\ Refreshing(r) /\ Refreshing(q)
  /\ req[r].refreshToken = req[q].refreshToken
  /\ req[r].user_id = req[q].user_id
  /\ req[r].validAtStart /\ req[q].validAtStart
  /\ req[r].nearAtStart /\ req[q].nearAtStart
  /\ Ended(r) /\ Ended(q)

C11_SingleReissue ==
  /\ \A r \in Reqs, q \in Reqs :
       (r # q /\ Refreshing(r) /\ Refreshing(q)
          /\ req[r].refreshToken = req[q].refreshToken
          /\ req[r].user_id = req[q].user_id
          /\ req[r].nearAtStart /\ req[q].nearAtStart) =>
         ~(req[r].wrote /\ req[q].wrote)
  /\ \A r \in Reqs :
       (Refreshing(r) /\ req[r].nearAtStart /\ req[r].stale) => ~req[r].wrote

\* C12: a call of validateGenerateTokens that is at its return, or has
\* returned, with a refresh token other than the presented one has completed
\* the write of a hash of that token before.
C12_WriteBeforeReturn ==
  \A r \in Reqs :
    (Refreshing(r) /\ req[r].pc \in {"return", "done"}
       /\ req[r].tokens.refreshToken \notin {NoToken, req[r].refreshToken}) =>
      /\ req[r].wrote
      /\ IsHashOf(req[r].hashedRefresh, req[r].tokens.refreshToken)
      /\ StoredHash(req[r].user_id) # req[r].user.refreshTokenHash

C12_Witness ==
  \E r \in Reqs :
    /\ Refreshing(r) /\ Ended(r) /\ req[r].outcome = Ok
    /\ req[r].tokens.refreshToken \notin {NoToken, req[r].refreshToken}
    /\ StoredHash(req[r].user_id) = req[r].hashedRefresh

\* ------------------------------------------------------ the browser session
\* The response to the last request the browser sent is in.
Answered == client.sent > 0 /\ ops = client.sent /\ \A r \in Reqs : req[r].pc \in {"idle", "done"}
\* The request being handled in this step.
Handled(r) == ops' = ops + 1 /\ req'[r] # req[r]
NotInvoked(r) ==
  /\ req'[r].op = "refreshTokens" /\ req'[r].pc = "done"
  /\ req'[r].user = NoUser /\ req'[r].tokens = NoTokens /\ ~req'[r].wrote
  /\ getStatus(req'[r].outcome) = 401
  /\ users' = users /\ issued' = issued /\ superseded' = superseded

C14_ExpiredRejected ==
  [][\A r \in Reqs :
       (Handled(r) /\ client.request.cookies.kind = "refresh"
          /\ now > (client.request.cookies.iat + RefreshTtlSec) * 1000) =>
         NotInvoked(r)]_vars

C14_Witness ==
  \E r \in Reqs :
    /\ req[r].op = "refreshTokens" /\ Ended(r) /\ getStatus(req[r].outcome) = 401
    /\ req[r].refreshToken.kind = "refresh"
    /\ req[r].nowMs > (req[r].refreshToken.iat + RefreshTtlSec) * 1000
    /\ IsHashOf(StoredHash(req[r].refreshToken.sub), req[r].refreshToken)

\* C15: a refresh request whose refreshToken cookie is missing or is not a
\* string is answered 401 without validateGenerateTokens being called;
\* nothing is issued and the store is unchanged.
C15_NoCookieRejected ==
  [][\A r \in Reqs :
       (Handled(r) /\ ~typeofString(client.request.cookies)) => NotInvoked(r)]_vars

C15_Witness ==
  /\ \E r \in Reqs :
       /\ req[r].op = "refreshTokens" /\ Ended(r) /\ getStatus(req[r].outcome) = 401
       /\ req[r].refreshToken = NoCookie
       /\ client.request.cookies = NoCookie
       /\ client.request.body.kind = "refresh"
       /\ IsHashOf(StoredHash(client.request.body.sub), client.request.body)
  /\ ops = client.sent

\* ------------------------------------------------------------ the pipeline
\* The handler of the request on worker r has run, wholly or up to an await.
Started(r) == hreq[r].pc \in {"suspended", "complete", "failed", "cancelled"}
Over(r) == hreq[r].pc \in {"complete", "failed", "cancelled"}
OnRoute(r, routes) == pipeline[r].route \in routes /\ hreq[r].pc # "idle"

\* C16: for a request with an authenticated user the interceptor lets
\* through, the context is installed before the handler's first turn: the
\* first read the handler or a service makes already returns the request's
\* context.
C16_InstalledBeforeHandler ==
  \A r \in HttpReqs :
    (Started(r) /\ hreq[r].user.present) =>
      /\ Installed(r)
      /\ hreq[r].first.hasContext
      /\ hreq[r].first.context = hreq[r].installed
      /\ hreq[r].first.organizationId = Returned(hreq[r].user.organizationId)
      /\ hreq[r].first.userId = Returned(hreq[r].user.id)

C16_Witness ==
  \E r \in HttpReqs :
    /\ hreq[r].pc = "suspended" /\ hreq[r].awaits = 0
    /\ hreq[r].user.present /\ OnRoute(r, {"candidates"})
    /\ hreq[r].first.context = hreq[r].installed
    /\ hreq[r].first.organizationId = Returned(Num(0))

\* C17: once a request that installed a context is over, by completion, by
\* error or by cancellation, its worker has no context: the next request on
\* that worker, when it installs none, reads none in any turn, and the
\* context the request arrived in has no store.
C17_NoContextAfterExit ==
  \A r \in HttpReqs :
    /\ (Started(r) /\ ~Installed(r)
          /\ pipeline[r].prev \in {"complete", "failed", "cancelled"}) =>
         /\ hreq[r].first.context = NoStore
         /\ hreq[r].seen.context = NoStore
         /\ ~hreq[r].seen.hasContext
         /\ ~hasContext(stores, hreq[r].asyncId)
    /\ (Over(r) /\ Installed(r)) =>
         getContext(stores, requestContext(r)) = NoStore

C17_Witness ==
  \E r \in HttpReqs :
    /\ Started(r) /\ ~Installed(r)
    /\ pipeline[r].prev \in {"failed", "cancelled"}
    /\ stores[scopeContext(r)] # NoStore
    /\ hreq[r].awaits >= 1
    /\ ~hreq[r].seen.hasContext

\* C18: in every turn of a handler getOrganizationId and getUserId return
\* the organizationId and the userId of the context the request installed,
\* and throw when the request installed none; they return no default and no
\* other request's tenant.
C18_IdsOrError ==
  \A r \in HttpReqs :
    Started(r) =>
      IF Installed(r)
      THEN /\ getOrganizationId(stores, hreq[r].asyncId)
                = Returned(hreq[r].installed.organizationId)
           /\ getUserId(stores, hreq[r].asyncId) = Returned(hreq[r].installed.userId)
           /\ hreq[r].seen.organizationId = Returned(hreq[r].installed.organizationId)
           /\ hreq[r].seen.userId = Returned(hreq[r].installed.userId)
      ELSE /\ getOrganizationId(stores, hreq[r].asyncId) = Threw
           /\ getUserId(stores, hreq[r].asyncId) = Threw
           /\ hreq[r].seen.organizationId = Threw
           /\ hreq[r].seen.userId = Threw

C18_Witness ==
  \E r \in HttpReqs, q \in HttpReqs :
    /\ Started(r) /\ Installed(r)
    /\ hreq[r].seen.organizationId = Returned(Num(0))
    /\ Started(q) /\ ~Installed(q)
    /\ hreq[q].awaits >= 1 /\ hreq[q].seen.after = r
    /\ hreq[q].seen.organizationId = Threw /\ hreq[q].seen.userId = Threw

\* C19: a request to CandidateController whose handler runs has an active
\* context in every turn, whatever request.user the strategy attached:
\* getOrganizationId and getUserId never throw there.
C19_NoMissingContext ==
  \A r \in HttpReqs :
    (OnRoute(r, {"candidates"}) /\ Started(r)) =>
      /\ ~hreq[r].first.organizationId.threw /\ ~hreq[r].first.userId.threw
      /\ ~hreq[r].seen.organizationId.threw /\ ~hreq[r].seen.userId.threw
      /\ ~getOrganizationId(stores, hreq[r].asyncId).threw

C19_Witness ==
  \E r \in HttpReqs, q \in HttpReqs :
    /\ OnRoute(r, {"candidates"}) /\ Started(r) /\ hreq[r].awaits >= 1
    /\ ~hreq[r].seen.organizationId.threw
    /\ OnRoute(q, {"candidates"}) /\ hreq[q].pc \in {"unauthorized", "rejected"}

\* C20: a request to register, login or the refresh endpoint that passes
\* the route's guards reaches its handler: the interceptor installs no
\* context and raises no error.
C20_AuthRoutesPassThrough ==
  \A r \in HttpReqs :
    (OnRoute(r, {"auth/login", "auth/refresh"}) /\ hreq[r].pc # "unauthorized") =>
      /\ Started(r)
      /\ ~Installed(r)

\* -------------------------------------------------------------- accounts
\* The step in which call r stores the hash of its refresh token.
StoresRefresh(r) == req[r].pc = "saveRefresh" /\ req'[r].pc = "return"
Registering(r) == req[r].op = "register"

\* C27: the refreshTokenHash of a user changes only in the saveRefresh of a
\* register, of a login or of a renewing validateGenerateTokens for that
\* user; updateUser and updateUserByAdmin called with a DTO, and
\* changePassword, leave it as it is.
C27_HashWriters ==
  [][\A u \in Rows :
       users'[u].refreshTokenHash # users[u].refreshTokenHash =>
         \E r \in Reqs :
           /\ StoresRefresh(r)
           /\ req[r].op \in {"register", "login", "refresh"}
           /\ req[r].user.id = u]_vars

\* C28: a register that succeeds has created one record for its email, with
\* the default role, no organization and no refreshTokenHash; it returns
\* the pair generateTokens made for that record, after a write that set the
\* record's refreshTokenHash, and nothing else, to a fresh bcrypt hash of
\* the refresh token it returns.
C28_RegisterCreatesAndStores ==
  /\ [](\A r \in Reqs :
          (Registering(r) /\ req[r].pc = "return") =>
            /\ req[r].user # NoUser
            /\ users[req[r].user.id].email = req[r].email
            /\ Cardinality({u \in Rows : users[u].email = req[r].email}) = 1
            /\ req[r].user.role = DefaultRole
            /\ req[r].user.organization = 0
            /\ req[r].user.refreshTokenHash = NoHash
            /\ req[r].tokens = generateTokens(req[r].user.id, DefaultRole, req[r].nowMs)
            /\ req[r].wrote
            /\ IsHashOf(req[r].hashedRefresh, req[r].tokens.refreshToken)
            /\ req[r].hashedRefresh.salt = req[r].salt)
  /\ [][\A r \in Reqs :
          (Registering(r) /\ StoresRefresh(r)) =>
            /\ IsHashOf(users'[req[r].user.id].refreshTokenHash, req[r].tokens.refreshToken)
            /\ users' = [users EXCEPT ![req[r].user.id].refreshTokenHash =
                                         req'[r].hashedRefresh]]_vars

C28_Witness ==
  \E r \in Reqs :
    /\ Registering(r) /\ Ended(r) /\ req[r].outcome = Ok
    /\ req[r].email = GhostId
    /\ StoredHash(req[r].user.id) = req[r].hashedRefresh
    /\ IsHashOf(StoredHash(req[r].user.id), req[r].tokens.refreshToken)

\* C29: register with an email a user already has is answered 400; it
\* creates no record, issues no tokens and changes no user.
C29_TakenEmailRejected ==
  [][\A r \in Reqs :
       (req'[r] # req[r] /\ req'[r].op = "register" /\ req'[r].email \in UserIds) =>
         /\ req'[r].pc = "done"
         /\ getStatus(req'[r].outcome) = 400
         /\ req'[r].user = NoUser /\ req'[r].tokens = NoTokens
         /\ users' = users /\ issued' = issued]_vars

\* A request the jwt guard let through: request.user is what validate returned.
Authenticated(r) == req[r].op = "jwt" /\ Ended(r) /\ req[r].outcome = Ok

\* C21: the identity AccessTokenStrategy.validate returns is taken from the
\* user record it fetched by the token's sub: id, role = user.role.name and,
\* for a user with an organization, organizationId = user.organization.id.
C21_LiveIdentity ==
  \A r \in Reqs : Authenticated(r) =>
    /\ req[r].user.id = req[r].payload.sub
    /\ req[r].principal.id = Num(req[r].user.id)
    /\ req[r].principal.role = req[r].user.role
    /\ req[r].user.organization # 0 =>
         req[r].principal.organizationId = Num(req[r].user.organization)

\* C22: for a user without an organization validate returns the
\* organizationId of the token's payload; for a user with one, the
\* organization of the record whatever the payload carries.
C22_PayloadFallback ==
  \A r \in Reqs : Authenticated(r) =>
    req[r].principal.organizationId =
      IF req[r].user.organization = 0
      THEN req[r].payload.organizationId
      ELSE Num(req[r].user.organization)

\* The claims a token of a user with an organization is said to carry.
TenantClaims(user) == Payload(user.id, user.role, Num(user.organization))

\* C23: the access token a successful login returns to a user with an
\* organization decodes to sub = the user's id, role = the user's role name
\* and organizationId = the user's organization id.
C23_LoginAccessTokenClaims ==
  \A r \in Reqs :
    (req[r].op = "login" /\ Ended(r) /\ req[r].outcome = Ok
       /\ req[r].user.organization # 0) =>
      /\ req[r].tokens.accessToken.kind = "access"
      /\ payloadOf(req[r].tokens.accessToken) = TenantClaims(req[r].user)

\* r's call has just received the pair generateTokens signed.
Generates(r) == req[r].tokens = NoTokens /\ req'[r].tokens # NoTokens

\* C24: generateTokens signs the claims {sub, role, organizationId} twice,
\* as an access token that expires 15 minutes after iat and as a refresh
\* token that expires 7 days after iat, and changes no stored state.
C24_GenerateTokens ==
  [][\A r \in Reqs : (Generates(r) /\ req'[r].user.organization # 0) =>
       LET pair == req'[r].tokens IN
         /\ pair.accessToken.kind = "access"
         /\ payloadOf(pair.accessToken) = TenantClaims(req'[r].user)
         /\ pair.accessToken.exp - pair.accessToken.iat = 15 * 60
         /\ pair.refreshToken \notin issued =>
              /\ pair.refreshToken.kind = "refresh"
              /\ payloadOf(pair.refreshToken) = TenantClaims(req'[r].user)
              /\ pair.refreshToken.exp - pair.refreshToken.iat = 7 * 24 * 60 * 60
         /\ users' = users]_vars

\* The token r's request presented at the refresh endpoint.
PresentedCookie(r) == req[r].refreshToken
\* The refresh endpoint let r's request through to validateGenerateTokens.
AcceptedAtRefresh(r) == req[r].op = "refresh"
\* The jwt guard refused r's request before validate.
RefusedOnAccessPath(r) ==
  req[r].op = "jwt" /\ Ended(r) /\ getStatus(req[r].outcome) = 401
    /\ req[r].principal = NoRequestUser /\ req[r].payload = NoPayload
RefusedAtRefresh(r) ==
  req[r].op = "refreshTokens" /\ Ended(r) /\ getStatus(req[r].outcome) = 401
    /\ req[r].tokens = NoTokens

\* C25: the two kinds of token are signed with different secrets and each
\* path verifies with its own: a refresh token as bearer is refused by the
\* jwt guard, an access token as refreshToken cookie is refused by the
\* jwt-refresh guard, and every pair signed has an access and a refresh token.
C25_SecretsSeparate ==
  /\ \A r \in Reqs :
       /\ req[r].bearer.kind = "refresh" => RefusedOnAccessPath(r)
       /\ Authenticated(r) /\ req[r].bearer # NoToken => req[r].bearer.kind = "access"
       /\ PresentedCookie(r).kind = "access" => RefusedAtRefresh(r)
       /\ AcceptedAtRefresh(r) => PresentedCookie(r).kind = "refresh"
       /\ req[r].tokens # NoTokens =>
            /\ req[r].tokens.accessToken.kind = "access"
            /\ req[r].tokens.refreshToken.kind = "refresh"
  /\ \A t \in issued : t.kind = "refresh"

\* An access token still within its lifetime was sent as the refreshToken
\* cookie and refused.
C25_Witness ==
  \E r \in Reqs :
    /\ PresentedCookie(r).kind = "access" /\ RefusedAtRefresh(r)
    /\ (req[r].nowMs \div 1000) < PresentedCookie(r).exp

\* r's refresh call starts: validateGenerateTokens fetches the user.
StartsRefresh(r) ==
  req'[r].op = "refresh" /\ req'[r].pc = "compareToken" /\ req[r] # req'[r]

\* C26: a refresh takes only sub from the presented token: the user is the
\* record stored under that sub when the call reads it, and the sub and role
\* of the tokens it returns are those of that record, whatever role the
\* presented token claims.
C26_RefreshClaimsFromRecord ==
  /\ [](\A r \in Reqs : (Refreshing(r) /\ req[r].tokens # NoTokens) =>
          /\ req[r].user.id = PresentedCookie(r).sub
          /\ req[r].tokens.accessToken =
               generateTokens(req[r].user.id, req[r].user.role, req[r].nowMs).accessToken
          /\ req[r].tokens.refreshToken \in
               { PresentedCookie(r),
                 generateTokens(req[r].user.id, req[r].user.role, req[r].nowMs).refreshToken })
  /\ [][\A r \in Reqs : StartsRefresh(r) =>
          req'[r].user = findById(PresentedCookie(r)'.sub)]_vars

\* A refresh returned tokens whose role is not the one the presented token
\* claims: the user's role was changed in between.
C26_Witness ==
  \E r \in Reqs :
    /\ Refreshing(r) /\ Ended(r) /\ req[r].outcome = Ok
    /\ PresentedCookie(r).role # req[r].user.role
    /\ req[r].tokens.accessToken.role = req[r].user.role

\* The controller has answered r's request with 201.
Delivered(r) ==
  req[r].pc = "responded" /\ req[r].op \in {"register", "login", "refresh"}
    /\ req[r].response.status = 201

\* C30: a successful register, login or refresh response sets the cookie
\* refreshToken, httpOnly and sameSite strict, to the refresh token the
\* service returned; its JSON body has the access token the service
\* returned and no refresh token.  An unsuccessful one sets no cookie.
C30_RefreshTokenOnlyInCookie ==
  /\ [](\A r \in Reqs :
          /\ Delivered(r) =>
               /\ req[r].outcome = Ok
               /\ req[r].response.cookie = req[r].tokens.refreshToken
               /\ req[r].response.cookie.kind = "refresh"
               /\ req[r].response.httpOnly /\ req[r].response.sameSite = "strict"
               /\ req[r].response.body.accessToken = req[r].tokens.accessToken
               /\ req[r].response.body.accessToken.kind = "access"
               /\ req[r].response.body.refreshToken = NoToken
          /\ (req[r].pc = "responded" /\ ~Delivered(r)) =>
               /\ req[r].outcome # Ok
               /\ req[r].response.cookie = NoToken
               /\ req[r].response.body = NoTokens)
  /\ [][\A r \in Reqs : (Ended(r) /\ req[r].outcome = Ok /\ req'[r].pc = "responded") =>
          /\ Delivered(r)'
          /\ req'[r].tokens = req[r].tokens]_vars

\* A refresh that rotated the token has been answered: the cookie is the new
\* refresh token, not the one presented.
C30_Witness ==
  \E r \in Reqs :
    /\ Delivered(r) /\ Refreshing(r)
    /\ req[r].response.cookie # PresentedCookie(r)
    /\ req[r].response.cookie \in issued

\* C31: the jwt-refresh guard calls validateGenerateTokens with the sub of
\* the token it verified and with that same token, the refreshToken cookie,
\* whatever else the request carries; what the call returns is what the
\* route hands on.
C31_ValidateUsesVerifiedCookie ==
  [][\A r \in Reqs :
       /\ StartsRefresh(r) =>
            /\ verify(PresentedCookie(r)', now)
            /\ req'[r].user_id = PresentedCookie(r)'.sub
            /\ req'[r].user = findById(PresentedCookie(r)'.sub)
       /\ (Refreshing(r) /\ Ended(r) /\ req[r].outcome = Ok /\ req'[r].pc = "responded") =>
            /\ req'[r].response.cookie = req[r].tokens.refreshToken
            /\ req'[r].response.body.accessToken = req[r].tokens.accessToken]_vars

\* A refresh of user 1 went through while a refresh token of another user
\* was there to be sent along in the body.
C31_Witness ==
  \E r \in Reqs :
    /\ Refreshing(r) /\ req[r].pc = "responded" /\ req[r].outcome = Ok
    /\ req[r].user_id = PresentedCookie(r).sub
    /\ \E t \in issued : t.sub # req[r].user_id

\* c's call writes its entity to the candidates table.
Saves(c) == creq[c].pc = "save" /\ creq'[c].pc # "save"
\* c's transitionState call is refused as an invalid transition.
RefusesTransition(c) ==
  creq'[c] # creq[c] /\ creq'[c].op = "transitionState"
    /\ creq'[c].outcome = CannotTransition
Terminal(state) == state \in {"HIRED", "REJECTED"}
\* No call is between its first and its last await.
Quiescent == \A c \in Calls : creq[c].pc \in {"idle", "done"}

\* C32: the write of a transitionState call moves the stored state of the
\* candidate along one of the eight transitions of the table; a request for
\* any other transition is answered 400 and changes neither the candidates
\* nor the history.
C32_OnlyValidTransitions ==
  [][\A c \in Calls :
       /\ (creq[c].op = "transitionState" /\ Saves(c)) =>
            candidates'[creq[c].id].state
              \in VALID_STATE_TRANSITIONS(candidates[creq[c].id].state)
       /\ RefusesTransition(c) =>
            /\ getStatus(creq'[c].outcome) = 400
            /\ creq'[c].pc = "done"
            /\ candidates' = candidates /\ stateHistory' = stateHistory]_vars

\* C33: the stored state of a candidate that is HIRED or REJECTED stays as
\* it is while the candidate exists.
C33_TerminalStatesFinal ==
  [][\A id \in CandidateIds :
       (Terminal(candidates[id].state) /\ candidates'[id] # NoCandidate) =>
         candidates'[id].state = candidates[id].state]_vars

\* C34: no step removes a candidate whose stored state is HIRED or any of
\* its history, and a delete that finds the candidate HIRED is answered 403.
C34_HiredNeverDeleted ==
  [][/\ \A id \in CandidateIds :
          candidates[id].state = "HIRED" =>
            /\ candidates'[id] # NoCandidate
            /\ Len(historyOf(id)') >= Len(historyOf(id))
     /\ \A c \in Calls :
          (creq'[c] # creq[c] /\ creq'[c].op = "delete" /\ creq'[c].pc # "done"
             /\ creq[c].pc \in {"idle", "done"}) =>
            creq'[c].candidate.state # "HIRED"]_vars

\* The history of a candidate is a chain from its creation to its state.
Chained(id) ==
  LET h == historyOf(id) IN
    /\ Len(h) >= 1
    /\ h[1].fromState = "NEW" /\ h[1].toState = "NEW"
    /\ \A i \in 2..Len(h) :
         /\ h[i].fromState = h[i - 1].toState
         /\ h[i].toState \in VALID_STATE_TRANSITIONS(h[i].fromState)
    /\ h[Len(h)].toState = candidates[id].state

\* C35: when no call is under way, the history of every candidate is one
\* NEW to NEW entry followed by one entry per transition, each starting
\* where the one before ended, the last ending at the candidate's state; and
\* every entry is written with the user of the request that writes it.
C35_HistoryIsChain ==
  /\ [](Quiescent => \A id \in CandidateIds :
                        candidates[id] # NoCandidate => Chained(id))
  /\ [][\A c \in Calls :
          (creq[c].pc = "logStateChange" /\ creq'[c].outcome = Ok) =>
            stateHistory' = Append(stateHistory,
               StateHistory(creq[c].id, creq[c].fromState, creq[c].toState,
                            creq[c].context.userId))]_vars

\* The organization of the context c's call runs under.
TenantOf(c) == creq[c].context.organizationId
\* c's call takes a step.
Steps(c) == creq'[c] # creq[c]
\* c's call starts, naming a candidate that another organization has.
StartsOnForeign(c) ==
  /\ Steps(c) /\ creq[c].pc \in {"idle", "done"}
  /\ creq'[c].op \notin {"create", "findAll"}
  /\ candidates[creq'[c].id] # NoCandidate
  /\ candidates[creq'[c].id].organizationId # creq'[c].context.organizationId
\* The rows and history entries a step of a call of organization o may touch.
OnlyOrganizationChanged(o) ==
  /\ \A id \in CandidateIds :
       candidates'[id] # candidates[id] =>
         /\ candidates[id] # NoCandidate => candidates[id].organizationId = o
         /\ candidates'[id] # NoCandidate => candidates'[id].organizationId = o
  /\ \A id \in CandidateIds :
       historyOf(id)' # historyOf(id) =>
         \/ candidates[id] # NoCandidate /\ candidates[id].organizationId = o
         \/ candidates'[id] # NoCandidate /\ candidates'[id].organizationId = o

\* What a call has read and returns is of its own organization.
OnlyOrganizationRead(c) ==
  /\ \A row \in creq[c].found : row.organizationId = TenantOf(c)
  /\ creq[c].candidate # NoCandidate => creq[c].candidate.organizationId = TenantOf(c)
  /\ \A i \in 1..Len(creq[c].history) : creq[c].history[i].candidateId = creq[c].id

\* C36: a call under the context of organization O returns rows and history
\* of candidates of O only and changes rows and history of candidates of O
\* only; named the id of a candidate of another organization it ends with
\* NotFound at once and changes nothing; and what it answers does not depend
\* on the rows of other organizations: a create fails on its email only when
\* a candidate of O has that email.
C36_TenantIsolation ==
  /\ [](\A c \in Calls : OnlyOrganizationRead(c))
  /\ [][\A c \in Calls :
          /\ Steps(c) => OnlyOrganizationChanged(creq'[c].context.organizationId)
          /\ StartsOnForeign(c) =>
               /\ creq'[c].pc = "done" /\ creq'[c].outcome = CandidateNotFound
               /\ creq'[c].found = {} /\ creq'[c].history = <<>>
               /\ candidates' = candidates /\ stateHistory' = stateHistory
          /\ (creq[c].op = "create" /\ Saves(c) /\ creq'[c].pc = "done") =>
               \E id \in CandidateIds :
                 /\ candidates[id] # NoCandidate
                 /\ candidates[id].email = creq[c].candidate.email
                 /\ candidates[id].organizationId = creq[c].context.organizationId]_vars

\* ---- C37
\* The bucket a context entitles its calls to: tenant-<organizationId> of the
\* context, none without a context.
OwnBuckets(context) ==
  IF context = NoStore THEN {}
  ELSE {[prefix |-> "tenant-", orgId |-> context.organizationId]}

\* C37: every StorageService call addresses only the bucket
\* tenant-<organizationId of its context> and returns only objects of that
\* bucket; a call without a context has failed with the error of
\* getOrganizationId and addressed no bucket; two calls in flight for
\* different tenants address disjoint buckets.
C37_OwnBucketOnly ==
  /\ \A s \in StorageCalls :
       /\ sreq[s].addressed \subseteq OwnBuckets(sreq[s].context)
       /\ \A o \in sreq[s].result : o.bucket \in OwnBuckets(sreq[s].context)
       /\ (sreq[s].op # "none" /\ sreq[s].context = NoStore) =>
            /\ sreq[s].pc = "done"
            /\ sreq[s].outcome = NoTenantContext
            /\ sreq[s].addressed = {}
  /\ \A s, t \in StorageCalls :
       (/\ sreq[s].context # NoStore /\ sreq[t].context # NoStore
        /\ sreq[s].context.organizationId # sreq[t].context.organizationId) =>
         sreq[s].addressed \cap sreq[t].addressed = {}

\* Calls of both tenants have run at once, each has addressed its bucket, and
\* a call without a context has been refused.
C37_Witness ==
  /\ sreq[1].context.organizationId = Num(1) /\ sreq[1].addressed # {}
  /\ sreq[2].context.organizationId = Num(2) /\ sreq[2].addressed # {}
  /\ sreq[1].pc # "done" /\ sreq[2].pc = "done"

\* ---- C38
\* C38: an upload made in a tenant's context has not failed, and once it is
\* over the bucket exists and the call returned the path of its object, also
\* when the bucket did not exist when the upload began and another first
\* upload of the tenant is in flight; the bucket cache names only buckets
\* that exist.
C38_FirstUploadSucceeds ==
  /\ bucketCache \subseteq buckets
  /\ \A s \in StorageCalls :
       (/\ sreq[s].op = "uploadFile"
        /\ sreq[s].context # NoStore
        /\ sreq[s].pc = "done") =>
         /\ sreq[s].outcome = Ok
         /\ sreq[s].bucket \in buckets
         /\ sreq[s].result = {StorageObject(sreq[s].bucket, sreq[s].key)}

\* The part of C38 about the cache alone.
C38_CacheOnlyExistingBuckets == bucketCache \subseteq buckets

\* ---- C39
NoOrganization(user) == user.organizationId.type \in {"undefined", "null"}

\* C39: a request whose authenticated user has no organizationId (undefined
\* or null) is rejected by the interceptor with UnauthorizedException: no
\* context is installed for it and its handler takes no turn and makes no
\* read.  An organizationId of 0 is an organization: the request is let
\* through with its context installed.
C39_NoTenantNoHandler ==
  \A r \in HttpReqs :
    /\ (hreq[r].pc # "idle" /\ hreq[r].user.present /\ NoOrganization(hreq[r].user)) =>
         /\ hreq[r].pc = "rejected"
         /\ ~Started(r)
         /\ ~Installed(r)
         /\ hreq[r].first = NoReads
         /\ hreq[r].seen = NoReads
         /\ hreq[r].awaits = 0
    /\ (hreq[r].pc # "idle" /\ hreq[r].user.present /\ ~NoOrganization(hreq[r].user)) =>
         /\ Started(r)
         /\ hreq[r].installed.organizationId = hreq[r].user.organizationId

\* A user with organizationId null was rejected while the handler of a user
\* of organization 0 runs.
C39_Witness ==
  \E r \in HttpReqs, q \in HttpReqs :
    /\ hreq[r].pc = "rejected" /\ hreq[r].user.organizationId = Null
    /\ Started(q) /\ hreq[q].installed.organizationId = Num(0)

\* ---- C40
\* The stored hash of user u is null or the hash of a refresh token issued
\* with sub u.
HashOfOwnToken(u) ==
  \/ users[u].refreshTokenHash = NoHash
  \/ \E t \in issued :
       /\ t.sub = u
       /\ users[u].refreshTokenHash.pre = JwtFirst72(t)

\* The pair a validateGenerateTokens returns carries the sub of the token it
\* was presented.
PairOfPresented(r) ==
  (req[r].op = "refresh" /\ req[r].pc \in {"saveRefresh", "return", "done"}
     /\ req[r].tokens # NoTokens) =>
    /\ req[r].tokens.accessToken.sub = req[r].refreshToken.sub
    /\ req[r].tokens.refreshToken.sub = req[r].refreshToken.sub
    /\ req[r].refreshToken \in issued

\* The saveRefresh of a refresh changes the stored hash of the user the
\* presented token was issued for, and of no other.
HashChangedByOwnToken(u) ==
  \A r \in Reqs :
    (/\ StoresRefresh(r) /\ req[r].op = "refresh"
     /\ users'[u].refreshTokenHash # users[u].refreshTokenHash) =>
      req[r].refreshToken.sub = u

C40_PairsAndWriters ==
  /\ [](\A r \in Reqs : PairOfPresented(r))
  /\ [][\A u \in Rows : users[u] # NoUser => HashChangedByOwnToken(u)]_vars

\* C40: in every state the refreshTokenHash of every user is null or the
\* hash of a refresh token issued with that user's id as sub; every pair
\* validateGenerateTokens returns carries the sub of the presented token; and
\* a refresh that stores a hash stores it for the user its token was issued
\* for, never for another.
C40_HashOfOwnIssuedToken ==
  /\ [](\A u \in Rows : users[u] # NoUser => HashOfOwnToken(u))
  /\ [](\A r \in Reqs : PairOfPresented(r))
  /\ [][\A u \in Rows : users[u] # NoUser => HashChangedByOwnToken(u)]_vars

====
